---- MODULE Spec2Model ----
(***************************************************************************)
(* Order-management backend (FastAPI + SQLAlchemy): the relational store,  *)
(* the cart and order handlers of routes/product.py, the password-reset    *)
(* handlers of routes/account.py, the JWT manager of config/dependencies.py *)
(* and the pagination of the list endpoints.                               *)
(*                                                                         *)
(* Eleven specifications share the variables below, each moving only its  *)
(* own part of the state:                                                  *)
(*   Spec        carts, cart items, products, orders (routes/product.py)   *)
(*   SpecReset   password-reset request / completion (routes/account.py)   *)
(*   SpecToken   token issue / verification (config/dependencies.py)       *)
(*   SpecPage    get_product_list pagination (routes/product.py)           *)
(*   SpecCatalog product and category writes (routes/product.py)           *)
(*   SpecAccount register, login, refresh, bearer auth (routes/account.py) *)
(*   SpecPolicy  the two password validators (schemas, create_superuser)   *)
(*   SpecOrders  delete_order on a store that holds orders                 *)
(*   SpecResetRace  interleaved password-reset requests                    *)
(*   SpecOrderRace  interleaved create_order requests                      *)
(*   SpecRoles   the routes that touch users, for the roles                *)
(*                                                                         *)
(* A handler is one action: a request runs on one session, and what it     *)
(* wrote becomes visible only at its commit; a request that raises before  *)
(* its commit leaves the committed store as it was.                        *)
(***************************************************************************)
EXTENDS Integers, Sequences, FiniteSets, TLC

VARIABLES
    users,        \* users table: id -> [email, is_active, group, password]
    products,     \* products table: id -> [price, name, category_id]
    carts,        \* carts table: set of [id, user_id]
    cartItems,    \* cart_items table: set of [id, cart_id, product_id, quantity]
    orders,       \* orders table: set of [id, user_id, status, total_price]
    orderItems,   \* order_items table: set of [id, order_id, product_id, quantity, price_at_order_time]
    nextCartId,   \* carts.id autoincrement
    nextItemId,   \* cart_items.id autoincrement
    nextOrderId,  \* orders.id autoincrement
    resetTokens,  \* password_reset_tokens table: set of [user_id, token, expires_at]
    now,          \* the clock, in ticks (TicksPerSecond ticks to a second)
    issued,       \* history: the tokens issued so far, with what was passed to issue
    expiredSeen,  \* history: <<kind, token>> pairs a verification has reported expired
    addLog,       \* history: <<cart_id, product_id>> of a live cart -> the quantities
                  \* add_item_to_user_cart added, while no other handler wrote the pair
    categories,   \* categories table: id -> [name]
    nextProductId,   \* products.id autoincrement
    nextCategoryId,  \* categories.id autoincrement
    refreshTokens,   \* refresh_tokens table: set of [user_id, token]
    inflight,        \* the requests between their first query and their commit:
                     \* slot -> what the request holds in its session
    orderSource,     \* history: <<order id, cart id>> of every order committed
    resp          \* the response (or the return value) of the last request or call

vars == <<users, products, carts, cartItems, orders, orderItems, nextCartId,
          nextItemId, nextOrderId, resetTokens, now, issued, expiredSeen, addLog,
          categories, nextProductId, nextCategoryId, refreshTokens, inflight,
          orderSource, resp>>

shopVars == <<products, carts, cartItems, orders, orderItems, nextCartId,
              nextItemId, nextOrderId, addLog>>

\* the tables the catalog and the account handlers add to those above
extVars == <<categories, nextProductId, nextCategoryId, refreshTokens, inflight,
             orderSource>>

\* the requests in flight and the history of the conversions
txVars == <<inflight, orderSource>>

(***************************************************************************)
(* Bounds of the model.                                                    *)
(***************************************************************************)
NumProducts == 2     \* product ids 1..NumProducts exist in the catalog
MaxPrice == 2        \* prices 1..MaxPrice (whole currency units)
MaxQty == 2          \* a cart item's quantity stays within 1..MaxQty
MaxAdd == 1          \* one add_item_to_user_cart request adds at most MaxAdd
MaxCarts == 2        \* carts created in one behaviour
MaxItemIds == 2      \* cart items created in one behaviour

\* the requests that can be in flight at once, and a slot no request holds
Slots == 1..2
Idle == [pc |-> "idle"]

None == "None"       \* Python's None / SQL NULL
Unset == "Unset"     \* a field the request body does not carry

ADMIN == "admin"
USER == "user"
PROCESSING == "processing"

ProductIds == 1..NumProducts

(***************************************************************************)
(* The users the store holds.  No handler modelled here adds users; the    *)
(* rows are those of a deployed store: an administrator and a customer.    *)
(***************************************************************************)
\* hash_password(raw_password): one-way, so a hash is told apart by its input only
hash_password(raw_password) == <<"hash", raw_password>>

SeedUsers ==
    (1 :> [email |-> "a@x", is_active |-> TRUE, group |-> ADMIN,
           password |-> hash_password("Adm1n#Pass")])
    @@ (2 :> [email |-> "b@x", is_active |-> TRUE, group |-> USER,
              password |-> hash_password("Us3r#Pass")])

UserIds == DOMAIN SeedUsers

\* A response: the handler that answered, the user the request acted for (0:
\* none), the HTTP status, and what the claims read of the body.
NoResp == [op |-> "none", user |-> 0, status |-> 0, body |-> ""]

ResponseWith(op, u, status, body) == [op |-> op, user |-> u, status |-> status, body |-> body]

Response(op, u, status) == ResponseWith(op, u, status, "")

(***************************************************************************)
(* Store queries.                                                          *)
(***************************************************************************)
UserCarts(u) == {c \in carts : c.user_id = u}

ItemsOf(cart_id) == {i \in cartItems : i.cart_id = cart_id}

\* select(CartModel).where(CartModel.user_id == ...) ... .scalars().first():
\* the statement has no ORDER BY, so any of the user's carts may come first.
NoCart == [id |-> 0, user_id |-> 0]     \* the query returned no row

\* the slip of leaving the user out of the cart query
FirstCartOfAnyUser(u) == IF carts = {} THEN {NoCart} ELSE carts

FirstCartChoices(u) == IF UserCarts(u) = {} THEN {NoCart} ELSE UserCarts(u)

ExistingItem(cart_id, product_id) ==
    {i \in cartItems : i.cart_id = cart_id /\ i.product_id = product_id}

ItemById(item_id) == {i \in cartItems : i.id = item_id}

CartOfItem(item) == CHOOSE c \in carts : c.id = item.cart_id

\* the slip of leaving the ownership check out
OwnsItemUnchecked(u, item) == TRUE

\* cart_item.cart.user_id != current_user.id: 403
OwnsItem(u, item) == CartOfItem(item).user_id = u

\* CartItemModel.validate_quantity(self, key, value): raises ValueError unless value > 0
CartItem_validate_quantity(value) == value > 0

\* UniqueConstraint("cart_id", "product_id") on cart_items
CartItemsUnique(rows) ==
    \A i, j \in rows : (i.cart_id = j.cart_id /\ i.product_id = j.product_id) => i = j

(***************************************************************************)
(* The history of the additions.  For a <<cart, product>> pair of a live   *)
(* cart: the sum of the quantities add_item_to_user_cart added to it, as   *)
(* long as no other handler (create_cart with items, update_cart_item,     *)
(* delete_cart_item) wrote the pair.  Cart ids are never issued twice, so  *)
(* the pairs of a removed cart go back to the start.                       *)
(***************************************************************************)
CartIds == 1..MaxCarts

Tracked(sum) == [tracked |-> TRUE, sum |-> sum]
Untracked == [tracked |-> FALSE, sum |-> 0]

WrittenElsewhere(pairs) ==
    [k \in CartIds \X ProductIds |-> IF k \in pairs THEN Untracked ELSE addLog[k]]

CartGone(cart_id) ==
    [k \in CartIds \X ProductIds |-> IF k[1] = cart_id THEN Tracked(0) ELSE addLog[k]]

(***************************************************************************)
(* Request inputs.                                                         *)
(***************************************************************************)
QtyInputs == (0 - 1)..MaxQty             \* CartItemBaseSchema.quantity: any int
ProductIdInputs == 0..NumProducts        \* 0: an id no product has
AddQtyInputs == (0 - 1)..MaxAdd          \* the quantity of one addition
ItemInputs == [product_id : ProductIdInputs, quantity : QtyInputs]
CartCreateInputs == {<<>>} \cup {<<a>> : a \in ItemInputs}
                        \cup {<<a, b>> : a, b \in ItemInputs}
\* ProductUpdateSchema.price: absent from the body, null, or a number
PriceInputs == {[kind |-> Unset, value |-> 0], [kind |-> None, value |-> 0]}
                  \cup {[kind |-> "value", value |-> v] : v \in 0..MaxPrice}

SeqRange(s) == {s[k] : k \in 1..Len(s)}

(***************************************************************************)
(* POST /cart/  create_cart                                                *)
(***************************************************************************)
\* The loop over cart_data.cart_items: the first item that fails decides the
\* response (400 product not found; ValueError of the quantity validator: 500).
RECURSIVE CreateCartLoop(_, _)
CreateCartLoop(items, k) ==
    IF k > Len(items) THEN 0
    ELSE IF items[k].product_id \notin DOMAIN products THEN 400
    ELSE IF ~CartItem_validate_quantity(items[k].quantity) THEN 500
    ELSE CreateCartLoop(items, k + 1)

NewCartItems(cart_id, items) ==
    {[id |-> nextItemId + k - 1, cart_id |-> cart_id,
      product_id |-> items[k].product_id, quantity |-> items[k].quantity]
        : k \in 1..Len(items)}

create_cart(u, items) ==
    /\ nextCartId <= MaxCarts
    /\ nextItemId + Len(items) <= MaxItemIds + 1
    /\ LET loop == CreateCartLoop(items, 1)
           status == IF loop # 0 THEN loop
                     \* db.commit(): IntegrityError -> rollback, 500
                     ELSE IF ~CartItemsUnique(cartItems \cup NewCartItems(nextCartId, items))
                          THEN 500
                     ELSE 201
       IN /\ resp' = Response("create_cart", u, status)
          /\ IF status = 201
             THEN /\ carts' = carts \cup {[id |-> nextCartId, user_id |-> u]}
                  /\ cartItems' = cartItems \cup NewCartItems(nextCartId, items)
                  /\ nextCartId' = nextCartId + 1
                  /\ nextItemId' = nextItemId + Len(items)
                  /\ addLog' = WrittenElsewhere(
                        {<<nextCartId, it.product_id>> : it \in SeqRange(items)})
             ELSE UNCHANGED <<carts, cartItems, nextCartId, nextItemId, addLog>>
    /\ UNCHANGED extVars
    /\ UNCHANGED <<users, products, orders, orderItems, nextOrderId, resetTokens,
                   now, issued, expiredSeen>>

(***************************************************************************)
(* DELETE /cart/{cart_id}  delete_cart                                     *)
(***************************************************************************)
delete_cart(u, cart_id) ==
    LET found == {c \in carts : c.id = cart_id}
        status == IF found = {} THEN 404
                  ELSE IF (CHOOSE c \in found : TRUE).user_id # u THEN 403
                  ELSE 204
    IN /\ resp' = Response("delete_cart", u, status)
       /\ IF status = 204
          THEN /\ carts' = carts \ found
               \* relationship cart_items: cascade="all, delete-orphan"
               /\ cartItems' = cartItems \ ItemsOf(cart_id)
               /\ addLog' = CartGone(cart_id)
          ELSE UNCHANGED <<carts, cartItems, addLog>>
       /\ UNCHANGED extVars
       /\ UNCHANGED <<users, products, orders, orderItems, nextCartId, nextItemId,
                      nextOrderId, resetTokens, now, issued, expiredSeen>>

(***************************************************************************)
(* POST /cart/items/  add_item_to_user_cart                                *)
(***************************************************************************)
\* the slip of assigning where the handler adds
OverwrittenQuantity(quantity, added) == added

\* existing_item.quantity += item_data.quantity
IncrementedQuantity(quantity, added) == quantity + added

add_item_to_user_cart(u, product_id, quantity) ==
    \E cart \in FirstCartChoices(u) :
      LET existing == IF cart = NoCart THEN {} ELSE ExistingItem(cart.id, product_id)
          item == CHOOSE i \in existing : TRUE
          newQty == IF existing # {}
                    THEN IncrementedQuantity(item.quantity, quantity)
                    ELSE quantity
          status == IF cart = NoCart THEN 404
                    ELSE IF product_id \notin DOMAIN products THEN 404
                    ELSE IF ~CartItem_validate_quantity(newQty) THEN 500
                    ELSE 201
      IN /\ status = 201 => newQty <= MaxQty
         /\ (status = 201 /\ existing = {}) => nextItemId <= MaxItemIds
         /\ resp' = Response("add_item_to_user_cart", u, status)
         /\ IF status # 201
            THEN UNCHANGED <<cartItems, nextItemId, addLog>>
            ELSE /\ addLog' = [addLog EXCEPT ![<<cart.id, product_id>>] =
                                    IF @.tracked THEN Tracked(@.sum + quantity) ELSE @]
                 /\ IF existing # {}
                    THEN /\ cartItems' = (cartItems \ existing)
                                \cup {[item EXCEPT !.quantity = newQty]}
                         /\ UNCHANGED nextItemId
                    ELSE /\ cartItems' = cartItems \cup
                                {[id |-> nextItemId, cart_id |-> cart.id,
                                  product_id |-> product_id, quantity |-> newQty]}
                         /\ nextItemId' = nextItemId + 1
         /\ UNCHANGED extVars
         /\ UNCHANGED <<users, products, carts, orders, orderItems, nextCartId,
                        nextOrderId, resetTokens, now, issued, expiredSeen>>

(***************************************************************************)
(* PUT /cart/items/{item_id}  update_cart_item                             *)
(***************************************************************************)
\* CartItemUpdateSchema.validate_quantity: ValueError (422) unless value > 0
CartItemUpdateSchema_validate_quantity(value) == value > 0

update_cart_item(u, item_id, quantity) ==
    LET found == ItemById(item_id)
        item == CHOOSE i \in found : TRUE
        status == IF ~CartItemUpdateSchema_validate_quantity(quantity) THEN 422
                  ELSE IF found = {} THEN 404
                  ELSE IF ~OwnsItem(u, item) THEN 403
                  ELSE 200
    IN /\ resp' = Response("update_cart_item", u, status)
       /\ IF status = 200
          THEN /\ cartItems' = (cartItems \ found) \cup {[item EXCEPT !.quantity = quantity]}
               /\ addLog' = WrittenElsewhere({<<item.cart_id, item.product_id>>})
          ELSE UNCHANGED <<cartItems, addLog>>
       /\ UNCHANGED extVars
       /\ UNCHANGED <<users, products, carts, orders, orderItems, nextCartId,
                      nextItemId, nextOrderId, resetTokens, now, issued,
                      expiredSeen>>

(***************************************************************************)
(* DELETE /cart/items/{item_id}  delete_cart_item                          *)
(***************************************************************************)
delete_cart_item(u, item_id) ==
    LET found == ItemById(item_id)
        item == CHOOSE i \in found : TRUE
        status == IF found = {} THEN 404
                  ELSE IF ~OwnsItem(u, item) THEN 403
                  ELSE 204
    IN /\ resp' = Response("delete_cart_item", u, status)
       /\ IF status = 204
          THEN /\ cartItems' = cartItems \ found
               /\ addLog' = WrittenElsewhere({<<item.cart_id, item.product_id>>})
          ELSE UNCHANGED <<cartItems, addLog>>
       /\ UNCHANGED extVars
       /\ UNCHANGED <<users, products, carts, orders, orderItems, nextCartId,
                      nextItemId, nextOrderId, resetTokens, now, issued,
                      expiredSeen>>

(***************************************************************************)
(* PUT /products/{product_id}  update_product (the price field)            *)
(***************************************************************************)
\* get_current_user: 403 unless the user's group is USER or ADMIN; 0: passed
get_current_user(u) == IF users[u].group \notin {USER, ADMIN} THEN 403 ELSE 0

\* the slip of guarding an admin route with get_current_user
get_current_admin_user_as_user(u) == get_current_user(u)

\* get_current_admin_user: 403 unless the user's group is ADMIN; 0: passed
get_current_admin_user(u) == IF users[u].group # ADMIN THEN 403 ELSE 0

\* ProductUpdateSchema.price: Optional[Decimal] = Field(None, gt=0)
ProductUpdateSchema_price_ok(price) == price.kind \in {Unset, None} \/ price.value > 0

\* a field the request body leaves out
FieldUnset == [kind |-> Unset, value |-> 0]

\* ProductUpdateSchema.category_id: absent from the body, null, or an id
CategoryFieldInputs(ids) == {FieldUnset, [kind |-> None, value |-> 0]}
                               \cup {[kind |-> "value", value |-> c] : c \in ids}

\* the handler, for a body that carries price and category_id
update_product_fields(u, product_id, price, category_id) ==
    LET status == IF get_current_admin_user(u) # 0 THEN get_current_admin_user(u)
                  ELSE IF ~ProductUpdateSchema_price_ok(price) THEN 422
                  ELSE IF product_id \notin DOMAIN products THEN 404
                  \* if product_data.category_id is not None: the category is looked up
                  ELSE IF /\ category_id.kind = "value"
                          /\ category_id.value \notin DOMAIN categories THEN 404
                  \* price, category_id: null reaches a NOT NULL column:
                  \* IntegrityError, rollback
                  ELSE IF price.kind = None \/ category_id.kind = None THEN 400
                  ELSE 200
        priced == IF price.kind = Unset THEN products[product_id]
                  ELSE [products[product_id] EXCEPT !.price = price.value]
        moved == IF category_id.kind = Unset THEN priced
                 ELSE [priced EXCEPT !.category_id = category_id.value]
    IN /\ resp' = Response("update_product", u, status)
       /\ IF status = 200
          THEN products' = [products EXCEPT ![product_id] = moved]
          ELSE UNCHANGED products
       /\ UNCHANGED extVars
       /\ UNCHANGED <<users, carts, cartItems, orders, orderItems, nextCartId,
                      nextItemId, nextOrderId, resetTokens, now, issued,
                      expiredSeen, addLog>>

\* the handler, for a body that carries the price only
update_product(u, product_id, price) ==
    update_product_fields(u, product_id, price, FieldUnset)

(***************************************************************************)
(* POST /orders/  create_order                                             *)
(***************************************************************************)
\* SQLAlchemy calls a @validates method as fn(obj, key, value).
ValidatesCallArgs == <<"obj", "key", "value">>

\* the two validators as SQLAlchemy calls them: with the key
OrderItemModel_validator_params_with_key == <<"self", "key", "value">>

\* OrderItemModel.validate_quantity(self, value) and
\* OrderItemModel.validate_price(self, value): two parameters each.
OrderItemModel_validator_params == <<"self", "value">>

\* OrderModel.validate_total_price(self, _, value)
OrderModel_validator_params == <<"self", "_", "value">>

\* OrderItemModel(product_id=..., quantity=..., price_at_order_time=...): setting
\* quantity runs validate_quantity with the three arguments of a validator call;
\* a method of another arity raises TypeError before any check of the value.
OrderItemModel_init(product_id, quantity, price) ==
    IF Len(OrderItemModel_validator_params) # Len(ValidatesCallArgs)
    THEN [exc |-> "TypeError"]
    ELSE IF quantity <= 0 \/ price < 0
    THEN [exc |-> "ValueError"]
    ELSE [exc |-> None, product_id |-> product_id, quantity |-> quantity,
          price_at_order_time |-> price]

\* cart.cart_items as a list, in primary-key order
RECURSIVE ItemList(_)
ItemList(rows) ==
    IF rows = {} THEN <<>>
    ELSE LET first == CHOOSE i \in rows : \A j \in rows : i.id <= j.id
         IN <<first>> \o ItemList(rows \ {first})

\* The loop over cart.cart_items: [status, items, total]; status 0 when every
\* item was converted, else the status of the first failure.
RECURSIVE OrderLoop(_, _, _, _)
OrderLoop(items, k, built, total) ==
    IF k > Len(items) THEN [status |-> 0, items |-> built, total |-> total]
    ELSE LET item == items[k] IN
         IF item.product_id \notin DOMAIN products
         THEN [status |-> 404, items |-> built, total |-> total]
         ELSE IF item.quantity <= 0
         THEN [status |-> 400, items |-> built, total |-> total]
         ELSE LET price == products[item.product_id].price
                  oi == OrderItemModel_init(item.product_id, item.quantity, price)
              IN IF oi.exc # None
                 THEN [status |-> 500, items |-> built, total |-> total]
                 ELSE OrderLoop(items, k + 1, Append(built, oi),
                                total + price * item.quantity)

\* OrderModel(user_id=..., total_price=..., status=PROCESSING, order_items=...)
OrderModel_init(u, total) ==
    IF Len(OrderModel_validator_params) # Len(ValidatesCallArgs)
    THEN [exc |-> "TypeError"]
    ELSE IF total <= 0
    THEN [exc |-> "ValueError"]
    ELSE [exc |-> None, id |-> nextOrderId, user_id |-> u, status |-> PROCESSING,
          total_price |-> total]

Store == [carts |-> carts, cartItems |-> cartItems, orders |-> orders,
          orderItems |-> orderItems]

\* the slip of leaving `not cart` out of the test: None.cart_items raises
\* AttributeError, and the request ends 500
create_order_cart_untested(cart) == IF cart = NoCart THEN 500 ELSE 0

\* if not cart or not cart.cart_items: raise HTTPException(400); 0: passed
create_order_cart_test(cart) ==
    IF cart = NoCart \/ ItemsOf(cart.id) = {} THEN 400 ELSE 0

\* the slip of committing the removal of the cart before the order is built
create_order_cart_removed_first(u, cart) ==
    IF cart = NoCart \/ ItemsOf(cart.id) = {} THEN [status |-> 400, store |-> Store]
    ELSE LET loop == OrderLoop(ItemList(ItemsOf(cart.id)), 1, <<>>, 0) IN
         [status |-> IF loop.status # 0 THEN loop.status ELSE 201,
          store |-> [Store EXCEPT !.carts = carts \ {cart},
                                  !.cartItems = cartItems \ ItemsOf(cart.id)]]

\* What one create_order request leaves committed, and its status: the request
\* of user u whose query returned `cart` (NoCart: the user has no cart).
create_order_outcome(u, cart) ==
    LET failed(status) == [status |-> status, store |-> Store] IN
    IF create_order_cart_test(cart) # 0 THEN failed(create_order_cart_test(cart))
    ELSE LET loop == OrderLoop(ItemList(ItemsOf(cart.id)), 1, <<>>, 0) IN
         IF loop.status # 0 THEN failed(loop.status)
         ELSE IF loop.total <= 0 THEN failed(400)
         ELSE LET order == OrderModel_init(u, loop.total) IN
              IF order.exc # None THEN failed(500)
              ELSE \* session.add(order); flush; session.delete(cart); commit
                   [status |-> 201,
                    store |->
                      [carts |-> carts \ {cart},
                       cartItems |-> cartItems \ ItemsOf(cart.id),
                       orders |-> orders \cup
                          {[id |-> order.id, user_id |-> u, status |-> order.status,
                            total_price |-> order.total_price]},
                       orderItems |-> orderItems \cup
                          {[id |-> Cardinality(orderItems) + k, order_id |-> order.id,
                            product_id |-> loop.items[k].product_id,
                            quantity |-> loop.items[k].quantity,
                            price_at_order_time |-> loop.items[k].price_at_order_time]
                             : k \in 1..Len(loop.items)}]]

create_order(u) ==
    \E cart \in FirstCartChoices(u) :
      LET out == create_order_outcome(u, cart) IN
      /\ resp' = Response("create_order", u, out.status)
      /\ carts' = out.store.carts
      /\ cartItems' = out.store.cartItems
      /\ orders' = out.store.orders
      /\ orderItems' = out.store.orderItems
      /\ nextOrderId' = IF out.status = 201 THEN nextOrderId + 1 ELSE nextOrderId
      /\ addLog' = IF out.status = 201 THEN CartGone(cart.id) ELSE addLog
      /\ orderSource' = IF out.status = 201
                        THEN orderSource \cup {<<nextOrderId, cart.id>>}
                        ELSE orderSource
      /\ UNCHANGED <<categories, nextProductId, nextCategoryId, refreshTokens,
                     inflight>>
      /\ UNCHANGED <<users, products, nextCartId, nextItemId, resetTokens, now,
                     issued, expiredSeen>>

(***************************************************************************)
(* Spec: the cart, catalog-price and order handlers.                       *)
(***************************************************************************)
\* the category the catalog starts with
SeedCategories == (1 :> [name |-> "C1"])

InitStore(user_rows, product_rows) ==
    /\ users = user_rows
    /\ products = product_rows
    /\ carts = {}
    /\ cartItems = {}
    /\ orders = {}
    /\ orderItems = {}
    /\ nextCartId = 1
    /\ nextItemId = 1
    /\ nextOrderId = 1
    /\ resetTokens = {}
    /\ now = 0
    /\ issued = {}
    /\ expiredSeen = {}
    /\ addLog = [k \in CartIds \X ProductIds |-> Tracked(0)]
    /\ categories = SeedCategories
    /\ nextProductId = Cardinality(DOMAIN product_rows) + 1
    /\ nextCategoryId = Cardinality(DOMAIN SeedCategories) + 1
    /\ refreshTokens = {}
    /\ inflight = [s \in Slots |-> Idle]
    /\ orderSource = {}
    /\ resp = NoResp

\* a catalog of n products, ids 1..n, all of the one category
Catalog(n) ==
    [p \in 1..n |-> [price |-> 1, name |-> "P" \o ToString(p), category_id |-> 1]]

Init == InitStore(SeedUsers, Catalog(NumProducts))

Next ==
    \/ \E u \in UserIds, items \in CartCreateInputs : create_cart(u, items)
    \/ \E u \in UserIds, c \in 0..MaxCarts : delete_cart(u, c)
    \/ \E u \in UserIds, p \in ProductIdInputs, q \in AddQtyInputs :
          add_item_to_user_cart(u, p, q)
    \/ \E u \in UserIds, i \in 0..MaxItemIds, q \in QtyInputs : update_cart_item(u, i, q)
    \/ \E u \in UserIds, i \in 0..MaxItemIds : delete_cart_item(u, i)
    \/ \E u \in UserIds, p \in ProductIdInputs, price \in PriceInputs :
          update_product(u, p, price)
    \/ \E u \in UserIds : create_order(u)

Spec == Init /\ [][Next]_vars

(***************************************************************************)
(* Properties of the cart and order handlers (checked under Spec).         *)
(***************************************************************************)
\* The step is a create_order request of user u.
PlacedOrder(u) == resp'.op = "create_order" /\ resp'.user = u

\* User u has a cart, and whichever cart the query returns holds items, each
\* of a product of the catalog and of a positive quantity.
HasConvertibleCart(u) ==
    /\ UserCarts(u) # {}
    /\ \A c \in UserCarts(u) :
          /\ ItemsOf(c.id) # {}
          /\ \A i \in ItemsOf(c.id) : i.product_id \in DOMAIN products /\ i.quantity > 0

\* C1 -- Cart-to-order atomicity: a create_order request that fails (any
\* status but 201) leaves every cart and cart item as it was and adds no order
\* and no order item to the store.
C1_CartToOrderAtomicity ==
    [][(resp'.op = "create_order" /\ resp'.status # 201)
          => UNCHANGED <<carts, cartItems, orders, orderItems>>]_vars

\* A create_order request failed with 500 after the cart of its user, which
\* holds items, was loaded; the cart and the items are still there.
C1_FailedAfterLoad ==
    /\ resp.op = "create_order" /\ resp.status = 500
    /\ \E c \in UserCarts(resp.user) : ItemsOf(c.id) # {}
    /\ orders = {}

\* C2 -- Price snapshot: a create_order request on a convertible cart creates,
\* for every cart item of product P, an order item whose price_at_order_time is
\* P's price at that moment, and no step ever changes or removes an order item
\* or an order's total_price.
C2_PriceSnapshot ==
    [][/\ \A u \in UserIds :
            (PlacedOrder(u) /\ HasConvertibleCart(u)) =>
                \E c \in UserCarts(u) : \A i \in ItemsOf(c.id) :
                    \E oi \in orderItems' \ orderItems :
                        /\ oi.product_id = i.product_id
                        /\ oi.price_at_order_time = products[i.product_id].price
       /\ resp'.op # "delete_order" =>
            (orderItems \subseteq orderItems' /\ orders \subseteq orders')]_vars

\* C3 -- Duplicate add: a cart holds at most one item per product, and for a
\* pair that only add_item_to_user_cart wrote, the item's quantity is the sum of
\* the quantities added (no item when nothing was added).
C3_DuplicateAdd ==
    \A c \in carts, p \in ProductIds :
        LET rows == ExistingItem(c.id, p)
            log == addLog[<<c.id, p>>]
        IN /\ Cardinality(rows) <= 1
           /\ log.tracked =>
                 /\ (rows = {}) <=> (log.sum = 0)
                 /\ \A i \in rows : i.quantity = log.sum

\* A product was added to a cart more than once (the sum exceeds what one
\* request adds) and the cart holds one item of it, of the summed quantity.
C3_AddedTwice ==
    \E c \in carts, p \in ProductIds :
        LET log == addLog[<<c.id, p>>] IN
        /\ log.tracked /\ log.sum > MaxAdd
        /\ \E i \in ExistingItem(c.id, p) : i.quantity = log.sum

\* C4 -- Successful conversion: a create_order request on a convertible cart
\* returns 201 and leaves a new order of that user with status PROCESSING, one
\* order item per cart item (same product and quantity), and neither the cart
\* nor any of its items in the store.
C4_SuccessfulConversion ==
    [][\A u \in UserIds :
          (PlacedOrder(u) /\ HasConvertibleCart(u)) =>
            /\ resp'.status = 201
            /\ \E c \in UserCarts(u), o \in orders' \ orders :
                  /\ o.user_id = u /\ o.status = PROCESSING
                  /\ c \notin carts' /\ ItemsOf(c.id) \cap cartItems' = {}
                  /\ \A i \in ItemsOf(c.id) :
                        \E oi \in orderItems' \ orderItems :
                            /\ oi.order_id = o.id
                            /\ oi.product_id = i.product_id
                            /\ oi.quantity = i.quantity]_vars


\* The items of cart c after the step.
ItemsAfter(c) == {i \in cartItems' : i.cart_id = c.id}

\* C11 -- Ownership of cart items: an update or a removal of an existing cart
\* item asked for by a user who does not own the item's cart is answered 403
\* (not 404) and leaves the carts and every item as they were; and no request
\* at all removes or changes the content of a cart of a user other than the
\* one who asked.  (Requests are those past the input contract: an update
\* carries a positive quantity.)
C11_ItemOwnership ==
    [][/\ resp'.op \in {"update_cart_item", "delete_cart_item"} =>
            \A u \in {resp'.user}, i \in 1..MaxItemIds :
              (\E item \in ItemById(i) : CartOfItem(item).user_id # u) =>
                /\ \A q \in 1..MaxQty :
                      update_cart_item(u, i, q) =>
                          (resp'.status = 403 /\ UNCHANGED <<carts, cartItems>>)
                /\ delete_cart_item(u, i) =>
                      (resp'.status = 403 /\ UNCHANGED <<carts, cartItems>>)
       /\ \A c \in carts :
            c.user_id # resp'.user => (c \in carts' /\ ItemsAfter(c) = ItemsOf(c.id))]_vars

\* A user asked to update an item of another user's cart and was answered 403.
C11_ForeignUpdateRefused ==
    /\ resp.op = "update_cart_item"
    /\ resp.status = 403
    /\ \E i \in cartItems : CartOfItem(i).user_id # resp.user

InvalidQuantityRejected ==
    resp'.status \in {400, 422} /\ UNCHANGED <<carts, cartItems>>

\* C12 -- Positive quantity on every write path: a request that would write a
\* zero or negative quantity (create_cart with such an item, add_item_to_user_cart
\* for a new product or for one already in the cart, update_cart_item) is
\* rejected as invalid input (400 or 422) and leaves the carts and every item
\* quantity as they were.
C12_PositiveQuantity ==
    [][/\ \A u \in UserIds, items \in CartCreateInputs :
            (/\ \E k \in 1..Len(items) : items[k].quantity <= 0
             /\ \A k \in 1..Len(items) : items[k].product_id \in DOMAIN products
             /\ create_cart(u, items)) => InvalidQuantityRejected
       /\ \A u \in UserIds, p \in ProductIds, q \in AddQtyInputs :
            (q <= 0 /\ UserCarts(u) # {} /\ add_item_to_user_cart(u, p, q))
                => InvalidQuantityRejected
       /\ \A u \in UserIds, i \in 1..MaxItemIds, q \in QtyInputs :
            (q <= 0 /\ ItemById(i) # {} /\ update_cart_item(u, i, q))
                => InvalidQuantityRejected]_vars

\* C12, the write path that accepts a negative quantity: adding a negative
\* quantity to a product already in the cart never lowers the stored quantity.
C12_NoDecrementByAdd ==
    [][resp'.op = "add_item_to_user_cart" =>
          \A i \in cartItems : \A j \in cartItems' :
              j.id = i.id => j.quantity >= i.quantity]_vars

\* C18 -- One cart per user: whatever cart requests were made, every user owns
\* at most one cart.
C18_OneCartPerUser ==
    \A u \in DOMAIN users : Cardinality(UserCarts(u)) <= 1

\* C19 (as stated) -- Implicit cart creation: when a user who owns no cart
\* adds an existing product with a positive quantity, the add succeeds, a cart
\* of that user is created and the item is stored in it.
C19_ImplicitCartCreation ==
    [][\A u \in {resp'.user} \cap UserIds, p \in ProductIds, q \in 1..MaxAdd :
          (UserCarts(u) = {} /\ add_item_to_user_cart(u, p, q)) =>
              /\ resp'.status = 201
              /\ \E c \in carts' :
                    /\ c.user_id = u
                    /\ \E i \in ItemsAfter(c) : i.product_id = p /\ i.quantity = q]_vars

\* C19 (amended) -- when a user who owns no cart adds an item, the add fails
\* with 404 and creates neither a cart nor an item; a cart comes into being
\* only by create_cart.
C19_AddNeedsCart ==
    [][/\ (resp'.op = "add_item_to_user_cart" /\ UserCarts(resp'.user) = {}) =>
            \A p \in ProductIdInputs, q \in AddQtyInputs :
                add_item_to_user_cart(resp'.user, p, q) =>
                    (resp'.status = 404 /\ UNCHANGED <<carts, cartItems>>)
       /\ carts' \ carts # {} => resp'.op = "create_cart"]_vars

\* A user without a cart asked to add an item while another user had a cart:
\* the answer was 404 and the user still has no cart.
C19_AddedWithoutCart ==
    /\ resp.op = "add_item_to_user_cart"
    /\ resp.status = 404
    /\ UserCarts(resp.user) = {}
    /\ carts # {}

\* C21 -- Empty cart: a create_order request of a user who has no cart, or
\* whose every cart holds no item, is answered 400, adds no order and no order
\* item, and leaves every cart and cart item as it was.
C21_EmptyCart ==
    [][(/\ resp'.op = "create_order"
        /\ \A c \in UserCarts(resp'.user) : ItemsOf(c.id) = {})
          => (/\ resp'.status = 400
              /\ UNCHANGED <<carts, cartItems, orders, orderItems>>)]_vars

\* A user whose cart holds no item asked for an order while another user's
\* cart held items: the answer was 400 and both carts are still there.
C21_EmptyCartRefused ==
    /\ resp.op = "create_order" /\ resp.status = 400
    /\ \E c \in UserCarts(resp.user) : ItemsOf(c.id) = {}
    /\ \E c \in carts : c.user_id # resp.user /\ ItemsOf(c.id) # {}
    /\ orders = {} /\ orderItems = {}

\* the sum of price x quantity over a set of cart items, at the catalog's prices
RECURSIVE SumOfLineTotals(_)
SumOfLineTotals(rows) ==
    IF rows = {} THEN 0
    ELSE LET i == CHOOSE r \in rows : TRUE
         IN products[i.product_id].price * i.quantity + SumOfLineTotals(rows \ {i})

\* C23 -- Order total: a create_order request on a convertible cart creates an
\* order whose total_price is the sum, over the items of the converted cart,
\* of the product's price at that moment times the item's quantity, and every
\* order's total_price is strictly positive.
C23_OrderTotal ==
    /\ [](\A o \in orders : o.total_price > 0)
    /\ [][\A u \in UserIds :
             (PlacedOrder(u) /\ HasConvertibleCart(u)) =>
                \E c \in UserCarts(u), o \in orders' \ orders :
                    o.total_price = SumOfLineTotals(ItemsOf(c.id))]_vars

(***************************************************************************)
(* DELETE /orders/{order_id}/  delete_order.  No create_order request of   *)
(* this revision commits an order, so the handler is run against a store   *)
(* that holds orders already: the rows of a database that was in use       *)
(* before.  Every such order carries its items.                            *)
(***************************************************************************)
MaxOrderId == 3      \* the store starts with orders 1..MaxOrderId

\* the user of order o: the customer holds the odd ones, the administrator the even
SeedOrderOwner(o) == IF o % 2 = 1 THEN 2 ELSE 1

SeedOrders ==
    {[id |-> o, user_id |-> SeedOrderOwner(o), status |-> PROCESSING, total_price |-> o]
        : o \in 1..MaxOrderId}

\* order o holds one item of product 1; order 1 holds an item of product 2 as well
SeedOrderItems ==
    {[id |-> o, order_id |-> o, product_id |-> 1, quantity |-> 1,
      price_at_order_time |-> 1] : o \in 1..MaxOrderId}
    \cup {[id |-> MaxOrderId + 1, order_id |-> 1, product_id |-> 2, quantity |-> 1,
           price_at_order_time |-> 1]}

ItemsOfOrder(order_id) == {i \in orderItems : i.order_id = order_id}

\* the slip of deleting the order row alone
delete_order_row_only(u, order_id) ==
    LET found == {o \in orders : o.id = order_id /\ o.user_id = u} IN
    IF found = {} THEN [status |-> 404, orders |-> orders, orderItems |-> orderItems]
    ELSE [status |-> 204, orders |-> orders \ found, orderItems |-> orderItems]

\* select(OrderModel).where(id == order_id, user_id == current_user.id): 404
\* when no row; delete(OrderItemModel).where(order_id == order.id);
\* delete(OrderModel).where(id == order.id); commit
delete_order_outcome(u, order_id) ==
    LET found == {o \in orders : o.id = order_id /\ o.user_id = u} IN
    IF found = {} THEN [status |-> 404, orders |-> orders, orderItems |-> orderItems]
    ELSE [status |-> 204, orders |-> orders \ found,
          orderItems |-> orderItems \ ItemsOfOrder(order_id)]

delete_order(u, order_id) ==
    LET out == delete_order_outcome(u, order_id) IN
    /\ resp' = ResponseWith("delete_order", u, out.status, order_id)
    /\ orders' = out.orders
    /\ orderItems' = out.orderItems
    /\ UNCHANGED extVars
    /\ UNCHANGED <<users, products, carts, cartItems, nextCartId, nextItemId,
                   nextOrderId, resetTokens, now, issued, expiredSeen, addLog>>

InitOrders ==
    /\ users = SeedUsers
    /\ products = Catalog(NumProducts)
    /\ carts = {}
    /\ cartItems = {}
    /\ orders = SeedOrders
    /\ orderItems = SeedOrderItems
    /\ nextCartId = 1
    /\ nextItemId = 1
    /\ nextOrderId = MaxOrderId + 1
    /\ resetTokens = {}
    /\ now = 0
    /\ issued = {}
    /\ expiredSeen = {}
    /\ addLog = [k \in CartIds \X ProductIds |-> Tracked(0)]
    /\ categories = SeedCategories
    /\ nextProductId = NumProducts + 1
    /\ nextCategoryId = Cardinality(DOMAIN SeedCategories) + 1
    /\ refreshTokens = {}
    /\ inflight = [s \in Slots |-> Idle]
    /\ orderSource = {}
    /\ resp = NoResp

NextOrders ==
    \/ \E u \in UserIds, o \in 0..MaxOrderId : delete_order(u, o)
    \/ \E u \in UserIds, items \in CartCreateInputs : create_cart(u, items)
    \/ \E u \in UserIds, c \in 0..MaxCarts : delete_cart(u, c)
    \/ \E u \in UserIds : create_order(u)

SpecOrders == InitOrders /\ [][NextOrders]_vars

(***************************************************************************)
(* Properties of delete_order (checked under SpecOrders).                  *)
(***************************************************************************)
\* C27 -- Order deletion: in every state each order item belongs to an order
\* of the store and each order holds an item (no order without its items, no
\* item without its order); a delete_order request for an order of its user is
\* answered 204 and removes the order and exactly its items; a request for an
\* order of another user or for no order is answered 404 and leaves the orders
\* and the order items as they were.
C27_OrderDeletion ==
    /\ [](/\ \A i \in orderItems : \E o \in orders : o.id = i.order_id
          /\ \A o \in orders : \E i \in orderItems : i.order_id = o.id)
    /\ [][resp'.op = "delete_order" =>
             LET own == {o \in orders : o.id = resp'.body /\ o.user_id = resp'.user} IN
             IF own = {}
             THEN resp'.status = 404 /\ UNCHANGED <<orders, orderItems>>
             ELSE /\ resp'.status = 204
                  /\ orders' = orders \ own
                  /\ orderItems' = {i \in orderItems : i.order_id # resp'.body}]_vars

\* The customer deleted their order of two items while the administrator's
\* order was in the store: the order and both items are gone, the other
\* orders and their items are still there.
C27_OwnOrderDeleted ==
    /\ resp.op = "delete_order" /\ resp.status = 204 /\ resp.body = 1
    /\ resp.user = 2
    /\ orders = {o \in SeedOrders : o.id # 1}
    /\ orderItems = {i \in SeedOrderItems : i.order_id # 1}

(***************************************************************************)
(* Interleaved create_order requests.  A request first loads the cart of   *)
(* its user with the items and their products (one query), then works on   *)
(* what it loaded: the loop, the order, session.add, flush,                *)
(* session.delete(cart) and the commit.  Nothing between the query and the *)
(* commit reads the store again, and the handler takes no lock.            *)
(***************************************************************************)
\* what a create_order request holds after its query
OrderRequest(u, cart, items) ==
    [pc |-> "loaded", user |-> u, cart |-> cart, items |-> items]

\* the query: 400 at once when there is no cart or the cart holds no item
create_order_load(s, u) ==
    \E cart \in FirstCartChoices(u) :
      /\ inflight[s] = Idle
      /\ IF create_order_cart_test(cart) # 0
         THEN /\ resp' = ResponseWith("create_order", u, create_order_cart_test(cart),
                                      cart.id)
              /\ UNCHANGED inflight
         ELSE /\ inflight' = [inflight EXCEPT
                                ![s] = OrderRequest(u, cart, ItemsOf(cart.id))]
              /\ UNCHANGED resp
      /\ UNCHANGED <<users, shopVars, resetTokens, now, issued, expiredSeen,
                     categories, nextProductId, nextCategoryId, refreshTokens,
                     orderSource>>

\* the rest of the handler, on the cart and the items that were loaded
create_order_finish(s) ==
    LET r == inflight[s]
        loop == OrderLoop(ItemList(r.items), 1, <<>>, 0)
        order == OrderModel_init(r.user, loop.total)
        status == IF loop.status # 0 THEN loop.status
                  ELSE IF loop.total <= 0 THEN 400
                  ELSE IF order.exc # None THEN 500
                  ELSE 201
    IN /\ r.pc = "loaded"
       /\ inflight' = [inflight EXCEPT ![s] = Idle]
       /\ resp' = ResponseWith("create_order", r.user, status, r.cart.id)
       /\ IF status = 201
          THEN \* the rows of the cart and of the loaded items are deleted by
               \* primary key; a row that is gone already is no error
               /\ carts' = carts \ {r.cart}
               /\ cartItems' = cartItems \ r.items
               /\ orders' = orders \cup
                     {[id |-> nextOrderId, user_id |-> r.user, status |-> order.status,
                       total_price |-> order.total_price]}
               /\ orderItems' = orderItems \cup
                     {[id |-> Cardinality(orderItems) + k, order_id |-> nextOrderId,
                       product_id |-> loop.items[k].product_id,
                       quantity |-> loop.items[k].quantity,
                       price_at_order_time |-> loop.items[k].price_at_order_time]
                        : k \in 1..Len(loop.items)}
               /\ nextOrderId' = nextOrderId + 1
               /\ addLog' = CartGone(r.cart.id)
               /\ orderSource' = orderSource \cup {<<nextOrderId, r.cart.id>>}
          ELSE UNCHANGED <<carts, cartItems, orders, orderItems, nextOrderId, addLog,
                           orderSource>>
       /\ UNCHANGED <<users, products, nextCartId, nextItemId, resetTokens, now,
                      issued, expiredSeen, categories, nextProductId, nextCategoryId,
                      refreshTokens>>

NextOrderRace ==
    \/ \E s \in Slots, u \in UserIds : create_order_load(s, u)
    \/ \E s \in Slots : create_order_finish(s)
    \/ \E u \in UserIds, items \in CartCreateInputs : create_cart(u, items)
    \/ \E u \in UserIds, c \in 0..MaxCarts : delete_cart(u, c)

SpecOrderRace == Init /\ [][NextOrderRace]_vars

TicksPerSecond == 2
MaxTime == 3         \* the clock runs from 0 to MaxTime ticks
MaxDelta == 2        \* an explicit expires_delta is 1..MaxDelta ticks
MaxTokens == 1       \* tokens issued in one behaviour

ACCESS_TOKEN_EXPIRE_MINUTES == 15
REFRESH_TOKEN_EXPIRE_DAYS == 7

\* Settings.SECRET_KEY_ACCESS, Settings.SECRET_KEY_REFRESH: the environment's
\* values, by default two separate draws of 32 random bytes.
SECRET_KEY_ACCESS == "key-access"
SECRET_KEY_REFRESH == "key-refresh"

timedelta_minutes(m) == m * 60 * TicksPerSecond
timedelta_hours(h) == timedelta_minutes(h * 60)
timedelta_days(d) == timedelta_hours(d * 24)

\* Optional[timedelta]: None, or a timedelta of `ticks`
NoDelta == [given |-> FALSE, ticks |-> 0]
Delta(ticks) == [given |-> TRUE, ticks |-> ticks]

\* `expires_delta or default`: None and timedelta(0) are falsy
OrDefault(expires_delta, default) ==
    IF expires_delta.given /\ expires_delta.ticks # 0 THEN expires_delta.ticks ELSE default

\* jwt.encode: a datetime claim is written as whole seconds since the epoch
\* (timegm(utctimetuple()): the fraction of the second is dropped)
NumericDate(ticks) == ticks \div TicksPerSecond

NoClaims == [k \in {} |-> 0]

\* the slip of encoding a fresh dict instead of the copy of data
JWT_create_token_without_data(data, secret, expires_delta) ==
    [key |-> secret, claims |-> [k \in {"exp"} |-> NumericDate(now + expires_delta)]]

\* JWTAuthManager._create_token
JWT_create_token(data, secret, expires_delta) ==
    LET expire == now + expires_delta
        to_encode == [k \in DOMAIN data \cup {"exp"} |->
                        IF k = "exp" THEN NumericDate(expire) ELSE data[k]]
    IN [key |-> secret, claims |-> to_encode]

create_access_token(data, expires_delta) ==
    JWT_create_token(data, SECRET_KEY_ACCESS,
        OrDefault(expires_delta, timedelta_minutes(ACCESS_TOKEN_EXPIRE_MINUTES)))

create_refresh_token(data, expires_delta) ==
    JWT_create_token(data, SECRET_KEY_REFRESH,
        OrDefault(expires_delta, timedelta_days(REFRESH_TOKEN_EXPIRE_DAYS)))

Decoded(status, detail, claims) == [status |-> status, detail |-> detail, claims |-> claims]

\* the slip of accepting a token during the second of its expiry
JWT_decode_token_late(token, secret) ==
    IF token.key # secret THEN Decoded(401, "Invalid token", NoClaims)
    ELSE IF (token.claims["exp"] + 1) * TicksPerSecond <= now
    THEN Decoded(401, "Token has expired", NoClaims)
    ELSE Decoded(200, "", token.claims)

\* JWTAuthManager._decode_token: jwt.decode checks the signature, then the
\* expiry (ExpiredSignatureError when exp <= now), and returns the payload.
JWT_decode_token(token, secret) ==
    IF token.key # secret THEN Decoded(401, "Invalid token", NoClaims)
    ELSE IF token.claims["exp"] * TicksPerSecond <= now
    THEN Decoded(401, "Token has expired", NoClaims)
    ELSE Decoded(200, "", token.claims)

\* the slip of checking access tokens against the refresh key
decode_access_token_with_refresh_key(token) == JWT_decode_token(token, SECRET_KEY_REFRESH)

decode_access_token(token) == JWT_decode_token(token, SECRET_KEY_ACCESS)

decode_refresh_token(token) == JWT_decode_token(token, SECRET_KEY_REFRESH)

(***************************************************************************)
(* SpecToken: calls of the manager, and the clock.                         *)
(***************************************************************************)
\* data: Dict[str, ...]; the second map brings an "exp" of its own
ClaimsInputs == {("user_id" :> 1), ("sub" :> 2) @@ ("exp" :> 9)}

DeltaInputs == {NoDelta} \cup {Delta(n) : n \in 0..MaxDelta}

\* a string no manager signed
GarbageToken == [key |-> "none", claims |-> NoClaims]

TokenInputs == {r.token : r \in issued} \cup {GarbageToken}

TokenBody(token, detail, claims) ==
    [token |-> token, at |-> now, detail |-> detail, claims |-> claims]

Issue(kind, data, expires_delta, token) ==
    /\ Cardinality(issued) < MaxTokens
    /\ issued' = issued \cup {[kind |-> kind, data |-> data, expires_delta |-> expires_delta,
                                at |-> now, token |-> token]}
    /\ resp' = ResponseWith("create_" \o kind \o "_token", 0, 200,
                             TokenBody(token, "", NoClaims))
    /\ UNCHANGED extVars
    /\ UNCHANGED <<users, shopVars, resetTokens, now, expiredSeen>>

CreateAccessToken(data, expires_delta) ==
    Issue("access", data, expires_delta, create_access_token(data, expires_delta))

CreateRefreshToken(data, expires_delta) ==
    Issue("refresh", data, expires_delta, create_refresh_token(data, expires_delta))

Decode(kind, token, out) ==
    /\ resp' = ResponseWith("decode_" \o kind \o "_token", 0, out.status,
                             TokenBody(token, out.detail, out.claims))
    /\ expiredSeen' = IF out.detail = "Token has expired"
                       THEN expiredSeen \cup {token} ELSE expiredSeen
    /\ UNCHANGED extVars
    /\ UNCHANGED <<users, shopVars, resetTokens, now, issued>>

DecodeAccessToken(token) == Decode("access", token, decode_access_token(token))

DecodeRefreshToken(token) == Decode("refresh", token, decode_refresh_token(token))

\* datetime.now(timezone.utc) moves on
Tick ==
    /\ now < MaxTime
    /\ now' = now + 1
    /\ UNCHANGED extVars
    /\ UNCHANGED <<users, shopVars, resetTokens, issued, expiredSeen, resp>>

NextToken ==
    \/ \E data \in ClaimsInputs, d \in DeltaInputs : CreateAccessToken(data, d)
    \/ \E data \in ClaimsInputs, d \in DeltaInputs : CreateRefreshToken(data, d)
    \/ \E token \in TokenInputs : DecodeAccessToken(token)
    \/ \E token \in TokenInputs : DecodeRefreshToken(token)
    \/ Tick

SpecToken == Init /\ [][NextToken]_vars

(***************************************************************************)
(* Properties of the tokens (checked under SpecToken).                     *)
(***************************************************************************)
IsDecode == resp.op \in {"decode_access_token", "decode_refresh_token"}

DecodedKind == IF resp.op = "decode_access_token" THEN "access" ELSE "refresh"

\* The issues of the token the last call decoded, under the kind it decoded.
SameKindIssues == {r \in issued : r.token = resp.body.token /\ r.kind = DecodedKind}

OtherKindIssues == {r \in issued : r.token = resp.body.token /\ r.kind # DecodedKind}

\* The ttl of an issue, in ticks: the expires_delta passed, or the default of
\* the kind when none (or a zero one) was passed.
Ttl(r) ==
    IF r.expires_delta.given /\ r.expires_delta.ticks > 0 THEN r.expires_delta.ticks
    ELSE IF r.kind = "access" THEN ACCESS_TOKEN_EXPIRE_MINUTES * 60 * TicksPerSecond
    ELSE REFRESH_TOKEN_EXPIRE_DAYS * 24 * 60 * 60 * TicksPerSecond

\* The first tick at which the token of issue r is expired: the start of the
\* second that holds issue time + ttl.
ExpiryTick(r) == ((r.at + Ttl(r)) \div TicksPerSecond) * TicksPerSecond

Without(f, key) == [k \in DOMAIN f \ {key} |-> f[k]]

\* C7 (as stated) -- Token round trip: a token decoded with the kind it was
\* issued with, before its expiry, returns exactly the claims passed to issue.
C7_RoundTripExact ==
    IsDecode => \A r \in SameKindIssues :
        resp.body.at < ExpiryTick(r) =>
            (resp.status = 200 /\ resp.body.claims = r.data)

\* C7 (amended) -- a token decoded with the kind it was issued with, before
\* its expiry, returns the claims passed to issue with "exp" set to the expiry
\* in whole seconds (an "exp" among the claims passed is replaced).
C7_RoundTripWithExp ==
    IsDecode => \A r \in SameKindIssues :
        resp.body.at < ExpiryTick(r) =>
            /\ resp.status = 200
            /\ DOMAIN resp.body.claims = DOMAIN r.data \cup {"exp"}
            /\ Without(resp.body.claims, "exp") = Without(r.data, "exp")
            /\ resp.body.claims["exp"] * TicksPerSecond = ExpiryTick(r)

\* An access token issued with claims of two keys was decoded as an access
\* token before its expiry.
C7_DecodedInTime ==
    /\ resp.op = "decode_access_token" /\ resp.status = 200
    /\ \E r \in SameKindIssues : "sub" \in DOMAIN r.data /\ resp.body.at > r.at

\* C8 (as stated) -- Token expiry: a token issued at t with ttl d verifies at
\* every time up to t + d and fails as expired at every time after t + d.
C8_ExpiryAtIssuePlusTtl ==
    IsDecode => \A r \in SameKindIssues :
        IF resp.body.at <= r.at + Ttl(r)
        THEN resp.status = 200
        ELSE resp.status = 401 /\ resp.body.detail = "Token has expired"

\* C8 (amended) -- a token issued at t with ttl d verifies at every time
\* before the start of the second that holds t + d and fails as expired from
\* then on; a token that has failed as expired does not verify again.
C8_ExpiryAtWholeSecond ==
    IsDecode => \A r \in SameKindIssues :
        /\ IF resp.body.at < ExpiryTick(r)
           THEN resp.status = 200
           ELSE resp.status = 401 /\ resp.body.detail = "Token has expired"
        /\ resp.status = 200 => resp.body.token \notin expiredSeen

\* A token issued with an explicit ttl was reported expired before issue
\* time + ttl had passed.
C8_ExpiredWithinTtl ==
    /\ IsDecode /\ resp.status = 401 /\ resp.body.detail = "Token has expired"
    /\ resp.body.token \in expiredSeen
    /\ \E r \in SameKindIssues :
          r.expires_delta.given /\ r.at < resp.body.at /\ resp.body.at < r.at + Ttl(r)

\* C9 -- Token class separation: a token issued as a refresh token is rejected
\* by decode_access_token, and a token issued as an access token is rejected by
\* decode_refresh_token, as an invalid token.
C9_TokenClassSeparation ==
    IsDecode => \A r \in OtherKindIssues :
        resp.status = 401 /\ resp.body.detail = "Invalid token"

\* A refresh token that has not expired was handed to decode_access_token.
C9_RefreshAsAccess ==
    /\ resp.op = "decode_access_token" /\ resp.status = 401
    /\ \E r \in OtherKindIssues : r.kind = "refresh" /\ resp.body.at < ExpiryTick(r)

(***************************************************************************)
(* Password reset (routes/account.py).                                     *)
(***************************************************************************)
MaxResets == 2       \* reset tokens issued in one behaviour

\* is_active defaults to False: the store may hold an account never activated
ResetUsers ==
    SeedUsers @@ (3 :> [email |-> "c@x", is_active |-> FALSE, group |-> USER,
                        password |-> hash_password("C#Passw0rd")])

\* EmailStr keeps the case of the local part
EmailInputs == {"a@x", "b@x", "B@x", "c@x", "nobody@x"}

\* the slip of leaving the address as it was sent
KeepCase(email) == email

\* str.lower() on the addresses above
Lower(email) == IF email = "B@x" THEN "b@x" ELSE email

\* A password, by what validate_password reads of it: its length and the
\* classes of characters it holds.
MinPasswordLength == 8
StrongPassword == [text |-> "N3w#Passw0rd", len |-> 12,
                   classes |-> {"upper", "lower", "digit", "special"}]
WeakPassword == [text |-> "weak", len |-> 4, classes |-> {"lower"}]
PasswordInputs == {StrongPassword, WeakPassword}

\* if <failed>: errors.append(message)
ErrorIf(failed, message) == IF failed THEN <<message>> ELSE <<>>

\* the slip of an elif chain: only the first failing rule is reported
validate_password_first_error(password) ==
    IF password.len < MinPasswordLength THEN <<"Minimum 8 characters required">>
    ELSE IF "upper" \notin password.classes
    THEN <<"Must contain at least one uppercase letter">>
    ELSE IF "lower" \notin password.classes
    THEN <<"Must contain at least one lowercase letter">>
    ELSE IF "digit" \notin password.classes
    THEN <<"Must contain at least one digit">>
    ELSE IF "special" \notin password.classes
    THEN <<"Must contain at least one special character: @, $, !, %, *, ?, #, &">>
    ELSE <<>>

\* BaseEmailPasswordSchema.validate_password: the list of errors it collects
\* (the request is answered 422 when the list is not empty)
validate_password(password) ==
    ErrorIf(password.len < MinPasswordLength, "Minimum 8 characters required")
    \o ErrorIf("upper" \notin password.classes,
               "Must contain at least one uppercase letter")
    \o ErrorIf("lower" \notin password.classes,
               "Must contain at least one lowercase letter")
    \o ErrorIf("digit" \notin password.classes, "Must contain at least one digit")
    \o ErrorIf("special" \notin password.classes,
               "Must contain at least one special character: @, $, !, %, *, ?, #, &")

\* select(UserModel).filter_by(email=...) ... .scalars().first(); 0: no row
UserByEmail(email) ==
    IF \E u \in DOMAIN users : users[u].email = email
    THEN CHOOSE u \in DOMAIN users : users[u].email = email
    ELSE 0

ResetTokensOf(u) == {t \in resetTokens : t.user_id = u}

\* PasswordResetTokenModel.create(user_id, token, hours_valid)
PasswordResetTokenModel_create(user_id, token, hours_valid) ==
    [user_id |-> user_id, token |-> token, expires_at |-> now + timedelta_hours(hours_valid)]

GenericAcknowledgement == "If you are registered, you will receive an email with instructions."

\* delete(PasswordResetTokenModel).where(user_id == user.id); db.add(reset_token)
TokensAfterRequest(u, row) == (resetTokens \ ResetTokensOf(u)) \cup {row}

request_password_reset_token(email) ==
    LET u == UserByEmail(email)
        op == "request_password_reset_token"
        token_payload == ("sub" :> ToString(u)) @@ ("email" :> users[u].email)
                            @@ ("type" :> "password_reset")
        expires_delta == Delta(timedelta_hours(1))
        token == create_access_token(token_payload, expires_delta)
        row == PasswordResetTokenModel_create(u, token, 1)
        issue == [kind |-> "access", data |-> token_payload,
                  expires_delta |-> expires_delta, at |-> now, token |-> token]
    IN /\ IF u = 0 \/ ~users[u].is_active
          THEN /\ resp' = ResponseWith(op, u, 200, GenericAcknowledgement)
               /\ UNCHANGED <<resetTokens, issued>>
          ELSE /\ Cardinality(issued \cup {issue}) <= MaxResets
               /\ resetTokens' = TokensAfterRequest(u, row)
               /\ issued' = issued \cup {issue}
               /\ resp' = ResponseWith(op, u, 200, "You are can reset password,")
       /\ UNCHANGED extVars
       /\ UNCHANGED <<users, shopVars, now, expiredSeen>>

\* `from pydantic import validators`: what the name `validators` is bound to in
\* database/models/account.py.  pydantic's module defines neither of the two
\* functions the model calls on it.
pydantic_validators_has(name) ==
    name \notin {"validate_password_strength", "validate_email"}

\* UserModel.password setter: validators.validate_password_strength(raw_password),
\* then self._hashed_password = hash_password(raw_password).  The lookup of a
\* name the module does not define raises AttributeError.
UserModel_set_password(user, raw_password) ==
    IF ~pydantic_validators_has("validate_password_strength")
    THEN [exc |-> "AttributeError", row |-> user]
    ELSE [exc |-> None, row |-> [user EXCEPT !.password = hash_password(raw_password)]]

complete_password_reset_no_token(email, password) ==
    LET u == UserByEmail(Lower(email))
        op == "complete_password_reset_no_token"
        assigned == UserModel_set_password(users[u], password.text)
    IN /\ IF validate_password(password) # <<>>
          THEN /\ resp' = ResponseWith(op, 0, 422, "Form contains errors")
               /\ UNCHANGED <<users, resetTokens>>
          ELSE IF u = 0 \/ ~users[u].is_active
          THEN /\ resp' = ResponseWith(op, u, 400, "Invalid user or inactive account.")
               /\ UNCHANGED <<users, resetTokens>>
          \* AttributeError is not an SQLAlchemyError: not handled, nothing committed
          ELSE IF assigned.exc # None
          THEN /\ resp' = ResponseWith(op, u, 500, "Internal Server Error")
               /\ UNCHANGED <<users, resetTokens>>
          ELSE /\ users' = [users EXCEPT ![u] = assigned.row]
               /\ resetTokens' = resetTokens \ ResetTokensOf(u)
               /\ resp' = ResponseWith(op, u, 200, "Password has been successfully reset.")
       /\ UNCHANGED extVars
       /\ UNCHANGED <<shopVars, now, issued, expiredSeen>>

InitReset == InitStore(ResetUsers, Catalog(NumProducts))

NextReset ==
    \/ \E email \in EmailInputs : request_password_reset_token(email)
    \/ \E email \in EmailInputs, password \in PasswordInputs :
          complete_password_reset_no_token(email, password)
    \/ Tick

SpecReset == InitReset /\ [][NextReset]_vars

(***************************************************************************)
(* Properties of the password reset (checked under SpecReset).             *)
(***************************************************************************)
\* The reset tokens issued so far for user u.
IssuedFor(u) == {r \in issued : r.data["sub"] = ToString(u)}

\* C5 -- Reset token singularity: a second reset request of a user removes the
\* token of the first (the store holds at most one reset token per user, the
\* newest issued for them), and a password reset is completed with that token
\* and only with it: a completion for an active account succeeds exactly when
\* the store holds the newest token issued for the user, and uses it up.
C5_CompletedOnlyWithNewestToken ==
    /\ [](\A u \in DOMAIN users : Cardinality(ResetTokensOf(u)) <= 1)
    /\ [][(/\ resp'.op = "complete_password_reset_no_token"
           /\ resp'.status # 422
           /\ resp'.user # 0
           /\ users[resp'.user].is_active)
            => /\ (resp'.status = 200) <=> (ResetTokensOf(resp'.user) # {})
               /\ resp'.status = 200 =>
                    \E t \in ResetTokensOf(resp'.user) :
                        /\ \A r \in IssuedFor(resp'.user) :
                              \E n \in IssuedFor(resp'.user) :
                                  n.token = t.token /\ n.at >= r.at
                        /\ t \notin resetTokens']_vars

\* C6 -- Enumeration resistance: whatever the email (no account, an inactive
\* account, an active account), a reset request is answered with status 200
\* and the same generic acknowledgement.
C6_EnumerationResistance ==
    resp.op = "request_password_reset_token" =>
        (resp.status = 200 /\ resp.body = GenericAcknowledgement)

\* C26 -- Token-less reset completion: a completion with an email and a new
\* password (one the password policy accepts) succeeds exactly for an existing,
\* active user; on success the stored password is the hash of the new password
\* and not of the old one, and no reset token of the user is left; for an
\* unknown or inactive user the answer is 400 and no password and no reset
\* token changes.
C26_TokenlessCompletion ==
    [][resp'.op = "complete_password_reset_no_token" =>
          \A email \in EmailInputs, password \in PasswordInputs :
              (complete_password_reset_no_token(email, password) /\ resp'.status # 422) =>
                  LET u == resp'.user
                      eligible == u # 0 /\ users[u].is_active
                  IN /\ (resp'.status = 200) <=> eligible
                     /\ resp'.status = 200 =>
                          /\ users'[u].password = hash_password(password.text)
                          /\ users'[u].password # users[u].password
                          /\ {t \in resetTokens' : t.user_id = u} = {}
                     /\ ~eligible =>
                          (resp'.status = 400 /\ UNCHANGED <<users, resetTokens>>)]_vars

(***************************************************************************)
(* Interleaved password-reset requests.  A request is a transaction of its *)
(* own (READ COMMITTED): its statements read what is committed when they   *)
(* run, its writes are seen by the others at its commit, a row it deleted  *)
(* is locked until then, and an insert waits for the uncommitted insert of *)
(* the same unique key.                                                    *)
(***************************************************************************)
\* the table without a constraint on user_id
PasswordResetToken_user_id_unconstrained == FALSE

\* PasswordResetTokenModel.user_id: unique
PasswordResetToken_user_id_unique == TRUE

\* what a reset request holds: the rows its DELETE read (want), the rows it
\* deleted (del), the row it inserted (row: none or one)
ResetRequest(pc, u, want, del, row) ==
    [pc |-> pc, user |-> u, want |-> want, del |-> del, row |-> row]

OtherSlots(s) == Slots \ {s}

\* a request of another slot that has deleted or inserted rows it has not committed
Uncommitted(o) == inflight[o].pc \in {"insert", "commit"}

\* select(UserModel).filter_by(email=data.email); if not user or not user.is_active
reset_select_user(s, email) ==
    LET u == UserByEmail(email) IN
    /\ inflight[s] = Idle
    /\ IF u = 0 \/ ~users[u].is_active
       THEN /\ resp' = ResponseWith("request_password_reset_token", u, 200,
                                    GenericAcknowledgement)
            /\ UNCHANGED inflight
       ELSE /\ inflight' = [inflight EXCEPT ![s] = ResetRequest("delete", u, {}, {}, {})]
            /\ UNCHANGED resp
    /\ UNCHANGED <<users, shopVars, resetTokens, now, issued, expiredSeen,
                   categories, nextProductId, nextCategoryId, refreshTokens,
                   orderSource>>

\* delete(PasswordResetTokenModel).where(user_id == user.id): the statement
\* reads the committed rows of the user
reset_delete_read(s) ==
    /\ inflight[s].pc = "delete"
    /\ inflight' = [inflight EXCEPT ![s].pc = "deleting",
                                    ![s].want = ResetTokensOf(inflight[s].user)]
    /\ UNCHANGED <<users, shopVars, resetTokens, now, issued, expiredSeen,
                   categories, nextProductId, nextCategoryId, refreshTokens,
                   orderSource, resp>>

\* ... and deletes them, once no other request holds one of them deleted and
\* uncommitted; a row another request deleted and committed meanwhile is skipped
reset_delete_rows(s) ==
    /\ inflight[s].pc = "deleting"
    /\ \A o \in OtherSlots(s) :
          Uncommitted(o) => inflight[o].del \cap inflight[s].want = {}
    /\ inflight' = [inflight EXCEPT ![s].pc = "insert",
                                    ![s].del = inflight[s].want \cap resetTokens]
    /\ UNCHANGED <<users, shopVars, resetTokens, now, issued, expiredSeen,
                   categories, nextProductId, nextCategoryId, refreshTokens,
                   orderSource, resp>>

\* create_access_token(...); PasswordResetTokenModel.create(...); db.add;
\* db.flush(): the INSERT.  A committed row of the user that this request has
\* not deleted violates the unique key: SQLAlchemyError, rollback, 500.
reset_insert(s) ==
    LET u == inflight[s].user
        token_payload == ("sub" :> ToString(u)) @@ ("email" :> users[u].email)
                            @@ ("type" :> "password_reset")
        expires_delta == Delta(timedelta_hours(1))
        token == create_access_token(token_payload, expires_delta)
        row == PasswordResetTokenModel_create(u, token, 1)
        issue == [kind |-> "access", data |-> token_payload,
                  expires_delta |-> expires_delta, at |-> now, token |-> token]
    IN /\ inflight[s].pc = "insert"
       /\ Cardinality(issued \cup {issue}) <= MaxResets
       /\ PasswordResetToken_user_id_unique =>
             \A o \in OtherSlots(s) :
                ~(inflight[o].pc = "commit" /\ inflight[o].user = u)
       /\ issued' = issued \cup {issue}
       /\ IF /\ PasswordResetToken_user_id_unique
             /\ ResetTokensOf(u) \ inflight[s].del # {}
          THEN /\ inflight' = [inflight EXCEPT ![s] = Idle]
               /\ resp' = ResponseWith("request_password_reset_token", u, 500,
                              "An error occurred while processing the request.")
          ELSE /\ inflight' = [inflight EXCEPT ![s].pc = "commit", ![s].row = {row}]
               /\ UNCHANGED resp
       /\ UNCHANGED <<users, shopVars, resetTokens, now, expiredSeen, categories,
                      nextProductId, nextCategoryId, refreshTokens, orderSource>>

\* db.commit()
reset_commit(s) ==
    /\ inflight[s].pc = "commit"
    /\ resetTokens' = (resetTokens \ inflight[s].del) \cup inflight[s].row
    /\ inflight' = [inflight EXCEPT ![s] = Idle]
    /\ resp' = ResponseWith("request_password_reset_token", inflight[s].user, 200,
                            "You are can reset password,")
    /\ UNCHANGED <<users, shopVars, now, issued, expiredSeen, categories,
                   nextProductId, nextCategoryId, refreshTokens, orderSource>>

NextResetRace ==
    \/ \E s \in Slots, email \in EmailInputs : reset_select_user(s, email)
    \/ \E s \in Slots : reset_delete_read(s)
    \/ \E s \in Slots : reset_delete_rows(s)
    \/ \E s \in Slots : reset_insert(s)
    \/ \E s \in Slots : reset_commit(s)
    \/ \E email \in EmailInputs, password \in PasswordInputs :
          complete_password_reset_no_token(email, password)
    \/ Tick

SpecResetRace == InitReset /\ [][NextResetRace]_vars

MaxCatalog == 24     \* the catalog holds 0..MaxCatalog products
MaxPage == 6         \* the page asked for is 0..MaxPage

PER_PAGE_MAX == 20   \* per_page: Query(20, ge=1, le=20)

Min(a, b) == IF a <= b THEN a ELSE b

\* the ids of a set of rows, in the order of the statement (by id)
RECURSIVE SortedIds(_)
SortedIds(ids) ==
    IF ids = {} THEN <<>>
    ELSE LET least == CHOOSE p \in ids : \A q \in ids : p <= q
         IN <<least>> \o SortedIds(ids \ {least})

ProductRows == SortedIds(DOMAIN products)

\* stmt.offset(offset).limit(per_page)
OffsetLimit(rows, offset, limit) == SubSeq(rows, offset + 1, Min(offset + limit, Len(rows)))

PageLink(page, per_page) ==
    "/products/?page=" \o ToString(page) \o "&per_page=" \o ToString(per_page)

\* the slip of rounding the number of pages down
TotalPagesRoundedDown(total_items, per_page) == total_items \div per_page

\* total_pages = (total_items + per_page - 1) // per_page
TotalPages(total_items, per_page) == (total_items + per_page - 1) \div per_page

PageBody(page, per_page, rows, prev_page, next_page, total_pages, total_items) ==
    [page |-> page, per_page |-> per_page, products |-> rows, prev_page |-> prev_page,
     next_page |-> next_page, total_pages |-> total_pages, total_items |-> total_items]

get_product_list(u, page, per_page) ==
    LET op == "get_product_list"
        offset == (page - 1) * per_page
        total_items == Cardinality(DOMAIN products)
        rows == OffsetLimit(ProductRows, offset, per_page)
        total_pages == TotalPages(total_items, per_page)
        failed(status) == ResponseWith(op, u, status,
                              PageBody(page, per_page, <<>>, None, None, 0, 0))
    IN /\ resp' =
             IF page < 1 \/ per_page < 1 \/ per_page > PER_PAGE_MAX THEN failed(422)
             ELSE IF total_items = 0 THEN failed(404)
             ELSE IF rows = <<>> THEN failed(404)
             ELSE ResponseWith(op, u, 200,
                    PageBody(page, per_page, rows,
                             IF page > 1 THEN PageLink(page - 1, per_page) ELSE None,
                             IF page < total_pages THEN PageLink(page + 1, per_page) ELSE None,
                             total_pages, total_items))
       /\ UNCHANGED extVars
       /\ UNCHANGED <<users, shopVars, resetTokens, now, issued, expiredSeen>>

InitPage == \E n \in 0..MaxCatalog : InitStore(SeedUsers, Catalog(n))

NextPage ==
    \E u \in UserIds, page \in 0..MaxPage, per_page \in 0..(PER_PAGE_MAX + 1) :
        get_product_list(u, page, per_page)

SpecPage == InitPage /\ [][NextPage]_vars

(***************************************************************************)
(* Properties of the pagination (checked under SpecPage).                  *)
(***************************************************************************)
\* ceil(a / b) for a > 0, b > 0: the least q with q * b >= a
Ceil(a, b) == CHOOSE q \in 1..a : q * b >= a /\ (q - 1) * b < a

\* C10 -- Pagination: with T > 0 products, per_page in 1..20 and page p in
\* 1..ceil(T / per_page), the response is 200 and holds
\* min(per_page, T - (p - 1) * per_page) items, total_items = T,
\* total_pages = ceil(T / per_page), prev_page null exactly when p = 1 and else
\* the link to page p - 1, next_page null exactly when p = total_pages and else
\* the link to page p + 1.
C10_Pagination ==
    resp.op = "get_product_list" =>
        LET T == Cardinality(DOMAIN products)
            p == resp.body.page
            n == resp.body.per_page
        IN (T > 0 /\ n \in 1..PER_PAGE_MAX /\ p >= 1 /\ p <= Ceil(T, n)) =>
            /\ resp.status = 200
            /\ Len(resp.body.products) = Min(n, T - (p - 1) * n)
            /\ resp.body.total_items = T
            /\ resp.body.total_pages = Ceil(T, n)
            /\ resp.body.prev_page = IF p = 1 THEN None ELSE PageLink(p - 1, n)
            /\ resp.body.next_page = IF p = Ceil(T, n) THEN None ELSE PageLink(p + 1, n)

\* 24 products, 10 per page: page 3 was served, with 4 items and no next page.
C10_LastPageOfTwentyFour ==
    /\ resp.op = "get_product_list" /\ resp.status = 200
    /\ Cardinality(DOMAIN products) = 24
    /\ resp.body.page = 3 /\ resp.body.per_page = 10
    /\ Len(resp.body.products) = 4
    /\ resp.body.next_page = None
    /\ resp.body.prev_page = "/products/?page=2&per_page=10"


(***************************************************************************)
(* The catalog writes (routes/product.py): products and categories.  Every *)
(* one of them depends on get_current_admin_user.                          *)
(***************************************************************************)
MaxProductId == 3    \* product ids handed out in one behaviour
MaxCategoryId == 2   \* category ids handed out in one behaviour

\* str.upper() on the product names below
Upper(name) == IF name = "tv" THEN "TV" ELSE name

ProductNameInputs == {"tv", "TV", "P1"}
CategoryNameInputs == {"C1", "C2"}
CategoryIdInputs == 0..MaxCategoryId
CreatePriceInputs == 0..MaxPrice         \* ProductBase.price: Field(..., gt=0)

\* the rows of `table` but row `id`
Without_row(table, id) == [k \in DOMAIN table \ {id} |-> table[k]]

\* db.delete(product): the cart_items and order_items rows of the product have
\* their product_id set to NULL, which their NOT NULL columns refuse
ProductReferenced(product_ids) ==
    \/ \E i \in cartItems : i.product_id \in product_ids
    \/ \E i \in orderItems : i.product_id \in product_ids

create_product(u, name, price, category_id) ==
    LET normalized_name == Upper(name)
        status == IF get_current_admin_user(u) # 0 THEN get_current_admin_user(u)
                  ELSE IF ~(price > 0) THEN 422
                  ELSE IF category_id \notin DOMAIN categories THEN 404
                  ELSE IF \E p \in DOMAIN products : products[p].name = normalized_name
                       THEN 400
                  ELSE 201
    IN /\ status = 201 => nextProductId <= MaxProductId
       /\ resp' = Response("create_product", u, status)
       /\ IF status = 201
          THEN /\ products' = products @@
                      (nextProductId :> [price |-> price, name |-> normalized_name,
                                         category_id |-> category_id])
               /\ nextProductId' = nextProductId + 1
          ELSE UNCHANGED <<products, nextProductId>>
       /\ UNCHANGED txVars
       /\ UNCHANGED <<users, carts, cartItems, orders, orderItems, nextCartId,
                      nextItemId, nextOrderId, resetTokens, now, issued,
                      expiredSeen, addLog, categories, nextCategoryId, refreshTokens>>

delete_product(u, product_id) ==
    LET status == IF get_current_admin_user(u) # 0 THEN get_current_admin_user(u)
                  ELSE IF product_id \notin DOMAIN products THEN 404
                  \* except Exception: rollback, 500
                  ELSE IF ProductReferenced({product_id}) THEN 500
                  ELSE 204
    IN /\ resp' = Response("delete_product", u, status)
       /\ IF status = 204
          THEN products' = Without_row(products, product_id)
          ELSE UNCHANGED products
       /\ UNCHANGED <<users, carts, cartItems, orders, orderItems, nextCartId,
                      nextItemId, nextOrderId, resetTokens, now, issued,
                      expiredSeen, addLog, extVars>>


create_category(u, name) ==
    LET status == IF get_current_admin_user(u) # 0 THEN get_current_admin_user(u)
                  ELSE IF \E c \in DOMAIN categories : categories[c].name = name THEN 400
                  ELSE 201
    IN /\ status = 201 => nextCategoryId <= MaxCategoryId
       /\ resp' = Response("create_category", u, status)
       /\ IF status = 201
          THEN /\ categories' = categories @@ (nextCategoryId :> [name |-> name])
               /\ nextCategoryId' = nextCategoryId + 1
          ELSE UNCHANGED <<categories, nextCategoryId>>
       /\ UNCHANGED txVars
       /\ UNCHANGED <<users, shopVars, resetTokens, now, issued, expiredSeen,
                      nextProductId, refreshTokens>>

\* name: a string, or None (also what an absent field dumps to nothing for)
update_category(u, category_id, name) ==
    LET status == IF get_current_admin_user(u) # 0 THEN get_current_admin_user(u)
                  ELSE IF category_id \notin DOMAIN categories THEN 404
                  ELSE IF /\ name # None
                          /\ name # categories[category_id].name
                          /\ \E c \in DOMAIN categories : categories[c].name = name
                       THEN 400
                  ELSE 200
    IN /\ resp' = Response("update_category", u, status)
       /\ IF status = 200 /\ name # None
          THEN categories' = [categories EXCEPT ![category_id].name = name]
          ELSE UNCHANGED categories
       /\ UNCHANGED txVars
       /\ UNCHANGED <<users, shopVars, resetTokens, now, issued, expiredSeen,
                      nextProductId, nextCategoryId, refreshTokens>>

\* the slip of removing the category row alone
ProductsNotCascaded(category_id) == {}

\* CategoryModel.products: cascade="all, delete"
ProductsOf(category_id) == {p \in DOMAIN products : products[p].category_id = category_id}

delete_category(u, category_id) ==
    LET status == IF get_current_admin_user(u) # 0 THEN get_current_admin_user(u)
                  ELSE IF category_id \notin DOMAIN categories THEN 404
                  \* the IntegrityError of the commit is not handled
                  ELSE IF ProductReferenced(ProductsOf(category_id)) THEN 500
                  ELSE 204
    IN /\ resp' = Response("delete_category", u, status)
       /\ IF status = 204
          THEN /\ categories' = Without_row(categories, category_id)
               /\ products' = [p \in DOMAIN products \ ProductsOf(category_id) |-> products[p]]
          ELSE UNCHANGED <<categories, products>>
       /\ UNCHANGED txVars
       /\ UNCHANGED <<users, carts, cartItems, orders, orderItems, nextCartId,
                      nextItemId, nextOrderId, resetTokens, now, issued,
                      expiredSeen, addLog, nextProductId, nextCategoryId,
                      refreshTokens>>

NextCatalog ==
    \/ \E u \in UserIds, name \in ProductNameInputs, price \in CreatePriceInputs,
          c \in CategoryIdInputs : create_product(u, name, price, c)
    \/ \E u \in UserIds, p \in 0..MaxProductId, price \in PriceInputs,
          c \in CategoryFieldInputs(CategoryIdInputs) :
          update_product_fields(u, p, price, c)
    \/ \E u \in UserIds, p \in 0..MaxProductId : delete_product(u, p)
    \/ \E u \in UserIds, name \in CategoryNameInputs : create_category(u, name)
    \/ \E u \in UserIds, c \in CategoryIdInputs, name \in CategoryNameInputs \cup {None} :
          update_category(u, c, name)
    \/ \E u \in UserIds, c \in CategoryIdInputs : delete_category(u, c)

SpecCatalog == Init /\ [][NextCatalog]_vars

(***************************************************************************)
(* Properties of the catalog writes (checked under SpecCatalog).           *)
(***************************************************************************)
CatalogWrites == {"create_product", "update_product", "delete_product",
                  "create_category", "update_category", "delete_category"}

\* C13 -- Admin gating of catalog writes: a create, update or delete of a
\* product or a category asked for by a user whose role is not ADMIN is
\* answered 403 and leaves the products and the categories as they were; and
\* every step that changes a product or a category is a request of an ADMIN.
C13_AdminGating ==
    [][/\ (resp'.op \in CatalogWrites /\ users[resp'.user].group # ADMIN) =>
            (resp'.status = 403 /\ UNCHANGED <<products, categories>>)
       /\ (products' # products \/ categories' # categories) =>
            (resp'.user \in DOMAIN users /\ users[resp'.user].group = ADMIN)]_vars

\* A customer asked to create a product in a catalog an administrator had
\* changed before, and was answered 403.
C13_CustomerRefused ==
    /\ resp.op = "create_product"
    /\ resp.status = 403
    /\ users[resp.user].group = USER
    /\ (products # Catalog(NumProducts) \/ categories # SeedCategories)

\* C22 -- Category delete cascade: in every state each product's category_id
\* is the id of an existing category; and a delete_category request answered
\* 204 removes a category and every product that belonged to it.
C22_CategoryDeleteCascade ==
    /\ [](\A p \in DOMAIN products : products[p].category_id \in DOMAIN categories)
    /\ [][(resp'.op = "delete_category" /\ resp'.status = 204) =>
             \E c \in DOMAIN categories :
                /\ c \notin DOMAIN categories'
                /\ \A p \in DOMAIN products :
                      products[p].category_id = c => p \notin DOMAIN products']_vars

\* The first category was deleted after a product had been moved to the
\* second: the product that stayed in the first is gone with it, the moved
\* one is still there.
C22_CategoryDeletedWithProducts ==
    /\ resp.op = "delete_category" /\ resp.status = 204
    /\ DOMAIN categories = {2}
    /\ nextProductId = NumProducts + 1
    /\ Cardinality(DOMAIN products) = 1
    /\ \A p \in DOMAIN products : products[p].category_id = 2


(***************************************************************************)
(* The password policy: BaseEmailPasswordSchema.validate_password          *)
(* (schemas/account.py) and validate_password of create_superuser.py.  A   *)
(* password is what the five tests read of it: its length and the classes  *)
(* of characters it holds ([A-Z], [a-z], \d, [@$!%*?&#]).                  *)
(***************************************************************************)
MaxPasswordLength == 9   \* passwords of 0..MaxPasswordLength characters

CharClasses == {"upper", "lower", "digit", "special"}

\* a password holds at least one character of each class it has
PolicyInputs ==
    {pw \in [len : 0..MaxPasswordLength, classes : SUBSET CharClasses] :
        Cardinality(pw.classes) <= pw.len}

\* create_superuser.validate_password: returns the list of errors
create_superuser_validate_password(password) ==
    ErrorIf(password.len < MinPasswordLength, "Minimum 8 characters required")
    \o ErrorIf("upper" \notin password.classes,
               "Must contain at least one uppercase letter")
    \o ErrorIf("lower" \notin password.classes,
               "Must contain at least one lowercase letter")
    \o ErrorIf("digit" \notin password.classes, "Must contain at least one digit")
    \o ErrorIf("special" \notin password.classes,
               "Must contain at least one special character: @, $, !, %, *, ?, #, &")

PolicyBody(password, errors) == [password |-> password, errors |-> errors]

\* a request body validated by a schema derived from BaseEmailPasswordSchema
ValidateSchemaPassword(password) ==
    LET errors == validate_password(password) IN
    /\ resp' = ResponseWith("validate_password", 0,
                             IF errors # <<>> THEN 422 ELSE 200,
                             PolicyBody(password, errors))
    /\ UNCHANGED <<users, shopVars, resetTokens, now, issued, expiredSeen, extVars>>

\* create_superuser.main: password_errors = validate_password(password)
ValidateSuperuserPassword(password) ==
    LET errors == create_superuser_validate_password(password) IN
    /\ resp' = ResponseWith("create_superuser_validate_password", 0,
                             IF errors # <<>> THEN 422 ELSE 200,
                             PolicyBody(password, errors))
    /\ UNCHANGED <<users, shopVars, resetTokens, now, issued, expiredSeen, extVars>>

NextPolicy ==
    \/ \E password \in PolicyInputs : ValidateSchemaPassword(password)
    \/ \E password \in PolicyInputs : ValidateSuperuserPassword(password)

SpecPolicy == Init /\ [][NextPolicy]_vars

(***************************************************************************)
(* Properties of the password policy (checked under SpecPolicy).           *)
(***************************************************************************)
PolicyRules == {"length"} \cup CharClasses

\* the rule is not met by the password
RuleFails(rule, password) ==
    IF rule = "length" THEN password.len < 8 ELSE rule \notin password.classes

RuleMessage(rule) ==
    CASE rule = "length" -> "Minimum 8 characters required"
      [] rule = "upper" -> "Must contain at least one uppercase letter"
      [] rule = "lower" -> "Must contain at least one lowercase letter"
      [] rule = "digit" -> "Must contain at least one digit"
      [] rule = "special" ->
            "Must contain at least one special character: @, $, !, %, *, ?, #, &"

Entries(errors, message) == {k \in 1..Len(errors) : errors[k] = message}

\* C20 -- Password policy reports all failures: a password is rejected exactly
\* when at least one of the five rules fails, and the error list holds one
\* entry for each failing rule and none for a rule that is met.
C20_AllFailuresReported ==
    resp.op \in {"validate_password", "create_superuser_validate_password"} =>
        LET password == resp.body.password
            errors == resp.body.errors
        IN /\ (resp.status = 422) <=> (\E rule \in PolicyRules : RuleFails(rule, password))
           /\ \A rule \in PolicyRules :
                Cardinality(Entries(errors, RuleMessage(rule)))
                    = IF RuleFails(rule, password) THEN 1 ELSE 0
           /\ \A k \in 1..Len(errors) : \E rule \in PolicyRules : errors[k] = RuleMessage(rule)

\* A password of eight characters lacking only a digit was rejected with
\* exactly the digit error.
C20_OnlyDigitMissing ==
    /\ resp.op = "validate_password"
    /\ resp.body.password = [len |-> 8, classes |-> {"upper", "lower", "special"}]
    /\ resp.body.errors = <<"Must contain at least one digit">>


(***************************************************************************)
(* The account routes (routes/account.py): register, login, refresh; and   *)
(* the bearer authentication of the protected routes (config/auth.py).     *)
(***************************************************************************)
\* security.passwords.verify_password(raw_password, hashed_password)
verify_password(raw_password, hashed) == hash_password(raw_password) = hashed

\* UserModel.validate_email(self, value): two parameters
UserModel_validator_params == <<"self", "value">>

\* the slip of creating every row as an administrator's
UserModel_create_admin(email, raw_password, group) ==
    [exc |-> None,
     row |-> [email |-> Lower(email), is_active |-> FALSE, group |-> ADMIN,
              password |-> hash_password(raw_password)]]

\* UserModel.create: cls(email=email, group_id=group_id) sets email, which runs
\* validate_email with the three arguments of a validator call.
UserModel_create(email, raw_password, group) ==
    IF Len(UserModel_validator_params) # Len(ValidatesCallArgs)
    THEN [exc |-> "TypeError"]
    ELSE [exc |-> None,
          row |-> [email |-> Lower(email), is_active |-> FALSE, group |-> group,
                   password |-> hash_password(raw_password)]]

\* the passwords of the customer and of the account never activated
UserPassword == [text |-> "Us3r#Pass", len |-> 9,
                 classes |-> {"upper", "lower", "digit", "special"}]
InactivePassword == [text |-> "C#Passw0rd", len |-> 10,
                     classes |-> {"upper", "lower", "digit", "special"}]
LoginPasswordInputs == PasswordInputs \cup {UserPassword, InactivePassword}

\* what the claims read of a response of an account route: the email the
\* request carried and the tokens the response hands out
AccountBody(email, tokens) == [email |-> email, tokens |-> tokens]

register_user(email, password) ==
    LET e == Lower(email)
        existing_user == UserByEmail(e)
        new_user == UserModel_create(e, password.text, USER)
        id == Cardinality(DOMAIN users) + 1
        status == IF validate_password(password) # <<>> THEN 422
                  ELSE IF existing_user # 0 THEN 409
                  \* TypeError is not an SQLAlchemyError: not handled
                  ELSE IF new_user.exc # None THEN 500
                  ELSE 201
    IN /\ resp' = ResponseWith("register_user", existing_user, status,
                                AccountBody(email, <<>>))
       /\ users' = IF status = 201
                   THEN users @@ (id :> [new_user.row EXCEPT !.is_active = TRUE])
                   ELSE users
       /\ UNCHANGED <<shopVars, resetTokens, now, issued, expiredSeen, extVars>>

\* RefreshTokenModel.create(user_id, days_valid, token)
RefreshTokenModel_create(user_id, days_valid, token) ==
    [user_id |-> user_id, token |-> token, expires_at |-> now + timedelta_days(days_valid)]

\* history: a token a route handed out, with the claims it was made of
Issued(kind, data, token) ==
    [kind |-> kind, data |-> data, expires_delta |-> NoDelta, at |-> now, token |-> token]

\* the slip of leaving the is_active test out
login_outcome_without_activation(u, password) ==
    IF u = 0 \/ ~verify_password(password.text, users[u].password) THEN 401 ELSE 200

\* not user or not user.verify_password(...): 401; not user.is_active: 403
login_outcome(u, password) ==
    IF u = 0 \/ ~verify_password(password.text, users[u].password) THEN 401
    ELSE IF ~users[u].is_active THEN 403
    ELSE 200

login_user(email, password) ==
    LET u == UserByEmail(Lower(email))
        outcome == login_outcome(u, password)
        token_payload == ("user_id" :> ToString(u)) @@ ("email" :> users[u].email)
        jwt_access_token == create_access_token(token_payload, NoDelta)
        jwt_refresh_token == create_refresh_token(token_payload, NoDelta)
        refresh_token == RefreshTokenModel_create(u, REFRESH_TOKEN_EXPIRE_DAYS,
                                                  jwt_refresh_token)
        status == IF validate_password(password) # <<>> THEN 422
                  ELSE IF outcome # 200 THEN outcome
                  \* the token column is unique: IntegrityError, rollback, 500
                  ELSE IF \E r \in refreshTokens : r.token = jwt_refresh_token THEN 500
                  ELSE 200
    IN /\ resp' = ResponseWith("login_user", IF status = 422 THEN 0 ELSE u, status,
                                AccountBody(email, IF status = 200
                                                   THEN <<jwt_access_token, jwt_refresh_token>>
                                                   ELSE <<>>))
       /\ refreshTokens' = IF status = 200 THEN refreshTokens \cup {refresh_token}
                           ELSE refreshTokens
       /\ issued' = IF status = 200
                    THEN issued \cup {Issued("access", token_payload, jwt_access_token),
                                      Issued("refresh", token_payload, jwt_refresh_token)}
                    ELSE issued
       /\ UNCHANGED txVars
       /\ UNCHANGED <<users, shopVars, resetTokens, now, expiredSeen,
                      categories, nextProductId, nextCategoryId>>


\* a JSON number among the claims (a JSON string is the string itself)
JsonNumber(n) == "#" \o ToString(n)

\* int(decoded_token.get("user_id")) on the str(user.id) login puts there
IntOf(s) == IF \E n \in 0..Cardinality(DOMAIN users) : ToString(n) = s
            THEN CHOOSE n \in 0..Cardinality(DOMAIN users) : ToString(n) = s
            ELSE 0 - 1

\* what the claims read of a response to a request that carried a token
TokenResponse(token, detail, tokens) ==
    [token |-> token, detail |-> detail, tokens |-> tokens]

\* the slip of deleting the record of the token that was exchanged
RefreshTokensRotated(token) == {r \in refreshTokens : r.token # token}

\* refresh_access_token reads the record and neither deletes nor adds one
RefreshTokensAfterRefresh(token) == refreshTokens

refresh_access_token(token) ==
    LET decoded_token == decode_refresh_token(token)
        user_id == IntOf(decoded_token.claims["user_id"])
        data == ("user_id" :> JsonNumber(user_id))
        new_access_token == create_access_token(data, NoDelta)
        status == \* the HTTPException of _decode_token is not an SQLAlchemyError:
                  \* the except clause (400) does not take it
                  IF decoded_token.status # 200 THEN decoded_token.status
                  \* int(None): TypeError
                  ELSE IF "user_id" \notin DOMAIN decoded_token.claims THEN 500
                  ELSE IF ~\E r \in refreshTokens : r.token = token THEN 401
                  ELSE IF user_id \notin DOMAIN users THEN 404
                  ELSE 200
        detail == IF decoded_token.status # 200 THEN decoded_token.detail
                  ELSE IF status = 401 THEN "Refresh token not found."
                  ELSE IF status = 404 THEN "User not found."
                  ELSE ""
    IN /\ resp' = ResponseWith("refresh_access_token", 0, status,
                                TokenResponse(token, detail,
                                              IF status = 200 THEN <<new_access_token>>
                                              ELSE <<>>))
       /\ refreshTokens' = IF status = 200 THEN RefreshTokensAfterRefresh(token)
                           ELSE refreshTokens
       /\ issued' = IF status = 200
                    THEN issued \cup {Issued("access", data, new_access_token)}
                    ELSE issued
       /\ UNCHANGED txVars
       /\ UNCHANGED <<users, shopVars, resetTokens, now, expiredSeen, categories,
                      nextProductId, nextCategoryId>>

\* _get_user_from_token: [status, detail, user]; status 200: the user is returned
get_user_from_token(token) ==
    LET payload == decode_access_token(token) IN
    \* the HTTPException of _decode_token is not a PyJWTError: the except
    \* clause ("Could not validate credentials") does not take it
    IF payload.status # 200
    THEN [status |-> payload.status, detail |-> payload.detail, user |-> 0]
    ELSE IF "email" \notin DOMAIN payload.claims
    THEN [status |-> 401, detail |-> "Invalid token: missing email", user |-> 0]
    ELSE IF UserByEmail(payload.claims["email"]) = 0
    THEN [status |-> 403, detail |-> "User not found", user |-> 0]
    ELSE [status |-> 200, detail |-> "", user |-> UserByEmail(payload.claims["email"])]

\* A request to a route that depends on get_current_user: the handler runs
\* (tokens <<"handler">>) only when the dependency returned a user.
AuthenticatedRequest(token) ==
    LET found == get_user_from_token(token)
        status == IF found.status # 200 THEN found.status
                  ELSE IF get_current_user(found.user) # 0 THEN 403
                  ELSE 200
    IN /\ resp' = ResponseWith("get_current_user", found.user, status,
                                TokenResponse(token, found.detail,
                                              IF status = 200 THEN <<"handler">> ELSE <<>>))
       /\ UNCHANGED <<users, shopVars, resetTokens, now, issued, expiredSeen, extVars>>

\* the tokens a client can send: those the store holds, those of the last
\* login or refresh response, and a string no manager signed
AccountTokenInputs ==
    {r.token : r \in refreshTokens} \cup {GarbageToken}
    \cup (IF resp.op \in {"login_user", "refresh_access_token"}
          THEN SeqRange(resp.body.tokens) ELSE {})

NextAccount ==
    \/ \E email \in EmailInputs, password \in LoginPasswordInputs :
          register_user(email, password)
    \/ \E email \in EmailInputs, password \in LoginPasswordInputs :
          login_user(email, password)
    \/ \E token \in AccountTokenInputs : refresh_access_token(token)
    \/ \E token \in AccountTokenInputs : AuthenticatedRequest(token)
    \/ Tick

SpecAccount == InitReset /\ [][NextAccount]_vars


(***************************************************************************)
(* Properties of the account routes (checked under SpecAccount).           *)
(***************************************************************************)
\* the address with its letters in lower case
CaseFolded(email) == IF email = "B@x" THEN "b@x" ELSE email

LowerCaseEmails == \A u \in DOMAIN users : users[u].email = CaseFolded(users[u].email)

UniqueEmails ==
    \A u1, u2 \in DOMAIN users :
        CaseFolded(users[u1].email) = CaseFolded(users[u2].email) => u1 = u2

\* the passwords the input contract lets through
ValidPasswords == {password \in LoginPasswordInputs : validate_password(password) = <<>>}

\* C14 -- Case-insensitive email uniqueness: whatever registrations were
\* asked for, no two users have emails that are equal when lower-cased and
\* every stored email is lower-case; and registering an email that differs
\* from a user's email at most in letter case is answered 409 and adds no user.
C14_EmailUniqueness ==
    /\ [](LowerCaseEmails /\ UniqueEmails)
    /\ [][resp'.op = "register_user" =>
            \A email \in EmailInputs, password \in ValidPasswords :
                (/\ register_user(email, password)
                 /\ \E u \in DOMAIN users :
                        CaseFolded(users[u].email) = CaseFolded(email))
                    => (resp'.status = 409 /\ UNCHANGED users)]_vars

\* The email of a user was registered again in another letter case and the
\* request was answered 409.
C14_CaseVariantRefused ==
    /\ resp.op = "register_user"
    /\ resp.status = 409
    /\ resp.body.email # CaseFolded(resp.body.email)
    /\ \E u \in DOMAIN users : users[u].email = CaseFolded(resp.body.email)

\* C15 -- Refresh failure mapping: a refresh request whose token is malformed,
\* has a bad signature or is expired is answered 400; a validly signed,
\* unexpired token with no record in the store 401; a valid, stored token
\* whose user no longer exists 404; and a failed request issues no access token.
C15_RefreshFailureMapping ==
    [][resp'.op = "refresh_access_token" =>
          \A token \in AccountTokenInputs :
              refresh_access_token(token) =>
                  LET verified == decode_refresh_token(token).status = 200
                      stored == \E r \in refreshTokens : r.token = token
                  IN /\ ~verified => resp'.status = 400
                     /\ (verified /\ ~stored) => resp'.status = 401
                     /\ (verified /\ stored /\ resp'.status # 200) => resp'.status = 404
                     /\ resp'.status # 200 => resp'.body.tokens = <<>>]_vars

\* C16 -- Generic authentication failure: a request to a bearer-protected
\* route whose token is malformed or was signed with another key is answered
\* 401 with the detail "Could not validate credentials", and the handler of
\* the route does not run.
C16_GenericAuthenticationFailure ==
    (resp.op = "get_current_user" /\ resp.body.token.key # SECRET_KEY_ACCESS) =>
        /\ resp.status = 401
        /\ resp.body.detail = "Could not validate credentials"
        /\ resp.body.tokens = <<>>

\* C17 -- Login outcomes: a login succeeds only for an existing, active user
\* with the right password; an unknown email or a wrong password is answered
\* 401 and the right password of an inactive account 403; a failed login
\* hands out no token and adds no refresh-token record; a successful login
\* adds exactly one record, owned by that user, and keeps the earlier ones.
C17_LoginOutcomes ==
    [][resp'.op = "login_user" =>
          \A email \in EmailInputs, password \in LoginPasswordInputs :
              login_user(email, password) =>
                  LET u == UserByEmail(CaseFolded(email))
                      known == u # 0
                      right == users[u].password = hash_password(password.text)
                  IN /\ resp'.status = 200 => (known /\ right /\ users[u].is_active)
                     /\ password \in ValidPasswords =>
                          /\ (~known \/ ~right) => resp'.status = 401
                          /\ (known /\ right /\ ~users[u].is_active) => resp'.status = 403
                     /\ resp'.status # 200 =>
                          (refreshTokens' = refreshTokens /\ resp'.body.tokens = <<>>)
                     /\ resp'.status = 200 =>
                          \E row \in refreshTokens' \ refreshTokens :
                              /\ row.user_id = u
                              /\ refreshTokens' = refreshTokens \cup {row}]_vars

\* A user who already held a refresh-token record logged in again and holds
\* two records.
C17_SecondLogin ==
    /\ resp.op = "login_user"
    /\ resp.status = 200
    /\ Cardinality({r \in refreshTokens : r.user_id = resp.user}) = 2

\* C25 -- Refresh does not consume: a refresh request changes no refresh-token
\* record; and a refresh token whose record is in the store, whose user exists
\* and whose expiry has not come is exchanged for an access token (200), however
\* often it was exchanged before.
C25_RefreshDoesNotConsume ==
    [][resp'.op = "refresh_access_token" =>
          /\ refreshTokens' = refreshTokens
          /\ \A r \in refreshTokens :
                (/\ r.token = resp'.body.token
                 /\ r.user_id \in DOMAIN users
                 /\ now < r.token.claims["exp"] * TicksPerSecond)
                  => (resp'.status = 200 /\ Len(resp'.body.tokens) = 1)]_vars

\* The only refresh token of the store was exchanged at two moments (two
\* access tokens of the refresh route were handed out), the second time just
\* now, and its record is still there.
C25_ExchangedTwice ==
    /\ resp.op = "refresh_access_token" /\ resp.status = 200
    /\ Cardinality(refreshTokens) = 1
    /\ \E r \in refreshTokens : r.token = resp.body.token
    /\ \E i, j \in issued :
          /\ i.kind = "access" /\ j.kind = "access"
          /\ "email" \notin DOMAIN i.data /\ "email" \notin DOMAIN j.data
          /\ i.at < j.at /\ j.at = now

\* the users an issued token was made for, by the user_id among its claims
IssuedTo(i) ==
    {u \in DOMAIN users : i.data["user_id"] \in {ToString(u), JsonNumber(u)}}

\* C28 -- Usability of issued access tokens: an access token that login or
\* refresh handed out, sent as a bearer credential before its expiry while its
\* user exists, is accepted (the handler runs) and resolves to that user.
C28_IssuedAccessTokensUsable ==
    [][resp'.op = "get_current_user" =>
          \A i \in issued :
              (/\ i.kind = "access"
               /\ i.token = resp'.body.token
               /\ now < i.token.claims["exp"] * TicksPerSecond
               /\ IssuedTo(i) # {})
                => (/\ resp'.status = 200
                    /\ resp'.body.tokens = <<"handler">>
                    /\ resp'.user \in IssuedTo(i))]_vars

(***************************************************************************)
(* SpecRoles: the routes that read or write users (register, login,        *)
(* refresh, bearer authentication, the password reset) together with one   *)
(* request of each kind of the catalog, cart and order routes per user.    *)
(***************************************************************************)
NextRoles ==
    \/ \E email \in EmailInputs, password \in PasswordInputs :
          register_user(email, password)
    \/ \E email \in EmailInputs, password \in LoginPasswordInputs :
          login_user(email, password)
    \/ \E token \in AccountTokenInputs : refresh_access_token(token)
    \/ \E token \in AccountTokenInputs : AuthenticatedRequest(token)
    \/ \E email \in EmailInputs : request_password_reset_token(email)
    \/ \E email \in EmailInputs, password \in PasswordInputs :
          complete_password_reset_no_token(email, password)
    \/ \E u \in DOMAIN users : create_category(u, "C2")
    \/ \E u \in DOMAIN users : delete_product(u, NumProducts)
    \/ \E u \in DOMAIN users : create_cart(u, <<[product_id |-> 1, quantity |-> 1]>>)
    \/ \E u \in DOMAIN users : create_order(u)
    \/ \E u \in DOMAIN users : delete_order(u, 1)

SpecRoles == InitReset /\ [][NextRoles]_vars

====
